---- MODULE Spec2Model ----
(***************************************************************************)
(* Condition waiters of libp2p-learn (WaitForConnection, WaitForPeerCount, *)
(* WaitForAllConnections) over an abstract libp2p host: per-host           *)
(* connection table and notifiee list.  Spec runs concurrent               *)
(* WaitForConnection calls against connection events; SpecCount runs the   *)
(* polling waits against a logical clock that drives deadline and ticker.  *)
(* SpecWait runs the waits that poll a query (WaitWithCondition,           *)
(* WaitForProtocolReady, WaitForDHTValue) against a predicate, a peerstore *)
(* and a DHT record that change under them; FairWait adds the scheduling.  *)
(* SpecProto runs one SendPing, SendChatMessage or SendEcho exchange over  *)
(* a stream of bytes with bounded windows against the handler the serving *)
(* host has registered; FairProto adds the scheduling.  SpecPings runs    *)
(* several SendPing calls at once against one server.                     *)
(***************************************************************************)
EXTENDS Integers, Sequences, FiniteSets, TLC

\* ---------------------------------------------------------------- bounds
MaxEvents  == 2      \* connect/disconnect events the network produces in a run
MaxConns   == 2      \* simultaneous connections between one ordered pair
MaxTime    == 4      \* last instant of the logical clock
MaxTimeout == 3      \* largest timeout argument, in clock units
MaxInterval == 2     \* largest interval argument of WaitWithCondition
MaxLen     == 2      \* longest message argument of SendPing / SendChatMessage, in bytes
MaxEcho    == 4      \* longest data argument of SendEcho, in bytes
Window     == 1      \* bytes one direction of a stream buffers before its writer blocks
MaxSetups  == 2      \* calls of SetupProtocols
MaxPeers   == 2      \* longest peers argument of bootstrapPeers
MaxWater   == 2      \* largest small value tried for LowWater and HighWater

\* Period of time.NewTicker(100 * time.Millisecond), in clock units of 50ms
TickInterval == 2

Hosts   == {"A", "B", "C"}
Waiters == {"w1", "w2"}      \* concurrent WaitForConnection calls

\* The pair every WaitForConnection call of the model is made for.
node1 == "A"
node2 == "B"

\* Connections the network may open: <<h, p>> is "h sees a connection to p".
Links == {<<"A", "B">>, <<"A", "C">>, <<"B", "A">>}
\* ... and in the runs of the polling waits: what A and B see.
AllLinks == {<<"A", "B">>, <<"A", "C">>, <<"B", "A">>, <<"B", "C">>}

\* Arguments of the polling waits
CountNodes == {"A", "B"}
CountExpected == 1 .. 2
NodeLists == {<<"A", "B">>, <<"B", "A">>}

\* Periods of the tickers of WaitForProtocolReady (100ms) and WaitForDHTValue
\* (200ms); the clock of the query-polling waits counts units of 100ms
ProtocolInterval == 1
DHTInterval == 2

\* Protocol IDs a peerstore may list, and the byte strings a DHT record may hold
Protocols == {"/libp2p-learn/ping/1.0.0", "/libp2p-learn/chat/1.0.0"}
Values == {<<1>>, <<2>>, <<1, 2>>}

\* Strings are sequences of bytes
NL == 10                                         \* "\n"
Pong == <<112, 111, 110, 103, 58, 32>>           \* "pong: "
EchoTag == <<69, 99, 104, 111, 58, 32>>          \* "Echo: "
\* message arguments: strings over 'a', 'b' and the newline
Alphabet == {97, 98, NL}
Messages == UNION {[1 .. n -> Alphabet] : n \in 0 .. MaxLen}
\* values of time.Now().Format("15:04:05"): "00:00:00" and "23:59:59"
Timestamps == {<<48, 48, 58, 48, 48, 58, 48, 48>>, <<50, 51, 58, 53, 57, 58, 53, 57>>}
\* data arguments of SendEcho: strings over the newline and the byte 0xff
EchoBytes == {NL, 255}
Payloads == UNION {[1 .. n -> EchoBytes] : n \in 0 .. MaxEcho}

\* Addresses given to bootstrapPeers: one that is no multiaddr, one without
\* a /p2p/ peer ID, one of a peer
AddrKinds == {"invalid", "nopeer", "peer"}
PeerLists == UNION {[1 .. n -> AddrKinds] : n \in 0 .. MaxPeers}

\* The fields of Config that Validate reads, with the values a configuration
\* file can put in them: the defaults, the edges of every comparison and
\* strings outside the log-level table.
ValidLogLevels == {"trace", "debug", "info", "warn", "error", "fatal", "panic"}
Configs == [ListenPort : {-1, 0, 65535, 65536},
            MaxConnections : {-1, 0, 1, 1000},
            LowWater : (-1 .. MaxWater) \cup {50, 200},
            HighWater : (-1 .. MaxWater) \cup {50, 200},
            LogLevel : ValidLogLevels \cup {"", "INFO"}]
DefaultConfig ==
    [ListenPort |-> 0, MaxConnections |-> 1000, LowWater |-> 50,
     HighWater |-> 200, LogLevel |-> "info"]

\* concurrent callers of SendPing, and the IDs of the streams they open
Clients == {"c1", "c2"}
StreamIDs == 1 .. Cardinality(Clients)

\* Protocol IDs
PingProtocol == "/libp2p-learn/ping/1.0.0"
ChatProtocol == "/libp2p-learn/chat/1.0.0"
EchoProtocol == "/libp2p-learn/echo/1.0.0"
ProtocolID == [ping |-> PingProtocol, chat |-> ChatProtocol, echo |-> EchoProtocol]
\* what a host serves before SetupProtocols: the identify protocol of libp2p
BuiltinHandlers == [id \in {"/ipfs/id/1.0.0"} |-> "identify"]

VARIABLES
    \* host collaborator
    conns,        \* conns[h][p]: open connections host h has to peer p
    notifs,       \* notifs[h]: notifiees registered on h's network (by waiter)
    nEvents,      \* connect/disconnect events so far
    disc,         \* some connection was closed
    \* one WaitForConnection call per waiter
    wpc,          \* position of the call
    wres,         \* returned error: "none" (running), "ok" (nil), "timeout"
    wctx,         \* context of the call: "live", "deadline" (timer fired), "cancelled"
    notified,     \* connectionNotifiee.notified
    connected,    \* times close(n.connected) was executed on the call's channel
    inTest,       \* inTest[w][p]: Connected(p) call-backs that have not yet run the if
    inClose,      \* inClose[w]: Connected call-backs past the if, before the close
    \* history of each call, for the properties
    evDuring,     \* a Connected event naming node2 fired on node1 while the context was live
    startConn,    \* which of node1, node2 had the other in its peer set when the call started
    raced,        \* the end of the context raced with the call: it came while the call
                  \* was not blocked in its select with nothing to wake it, or node2
                  \* connected after it and before the return
    \* logical clock
    now,
    \* the running WaitForPeerCount call
    cpc,          \* "idle", "select" (in the for/select loop), "done"
    cnode,        \* node argument
    cexp,         \* expectedCount argument
    cdeadline,    \* deadline of its context
    ccancelled,   \* the caller's enclosing context was cancelled
    tickAt,       \* instant of the ticker's next tick
    tickPending,  \* a tick is buffered in ticker.C
    cres,         \* "none", "ok", "timeout"
    cerr,         \* the count in the timeout error
    \* the running WaitForAllConnections call
    apc,          \* "idle", "loop", "done"
    anodes,       \* nodes argument
    aidx,         \* position of the range loop
    atimeout,     \* timeout argument
    adeadline,    \* deadline of its context
    ares,         \* "none", "ok", "fail"
    afailed,      \* the node named by the returned error ("none": no error)
    \* history of the polling waits, for the properties
    creached,     \* the peer set had >= cexp members at an instant of the wait before the deadline
    cstable,      \* size of cnode's peer set at the call, -1 once the set changed during the wait
    aobs,         \* peer counts seen by the polls that returned nil, in order
    apolled,      \* the nodes WaitForAllConnections has started a poll for, in order
    \* the running query-polling wait
    pnow,         \* its clock, in units of 100ms
    ppc,          \* "idle", "select" (in the for/select loop), "done"
    pkind,        \* "none", "cond" (WaitWithCondition), "proto" (WaitForProtocolReady),
                  \* "dht" (WaitForDHTValue)
    pdeadline,    \* deadline of its context
    pcancelled,   \* the caller's enclosing context was cancelled
    ptickAt,      \* instant of the ticker's next tick
    ptickPending, \* a tick is buffered in ticker.C
    pinterval,    \* period of the ticker
    pproto,       \* protocolID argument
    pexp,         \* expectedValue argument
    pres,         \* "none", "ok" (nil), "timeout" (the error of the ctx.Done branch)
    perr,         \* what the returned error is formatted from
    \* what the waits query
    condVal,      \* what condition() returns now
    protos,       \* protocols the peerstore knows for peerID
    qerr,         \* GetProtocols fails now
    dhtRec,       \* the record stored under key: {} or {value}
    dhtErr,       \* lookups fail now
    \* history of the query-polling wait, for the properties
    pevals,       \* evaluations of the condition so far
    pticks,       \* ticks received from ticker.C so far
    pfirst,       \* the condition held when the call was made
    ptrue,        \* some evaluation found the condition true
    plast,        \* what the last evaluation saw
    perrSeen,     \* some query of the wait returned an error
    plate,        \* the condition was evaluated after ctx.Done() was closed
    \* one stream between a sender and the handler of the remote peer
    sproto,       \* protocol the stream was opened for: "none", "ping", "chat", "echo"
    smsg,         \* message argument of the sender
    c2s,          \* bytes the sender has flushed and the handler has not read
    s2c,          \* bytes the handler has flushed and the sender has not read
    cclosed,      \* the sender has closed the stream
    sclosed,      \* the handler has closed the stream
    clpc,         \* sender: "idle", "write" (in s.Write), "read" (in a read), "done";
                  \* "raw": the stream was opened by a peer that is not this program
    svpc,         \* handler: "none", "read" (in a read), "write" (in a write), "done"
    cret,         \* string returned by the sender
    cfail,        \* error returned by the sender: "none" (running), "nil", or its text
    cwclosed,     \* the sender has closed its write side (s.CloseWrite())
    sreset,       \* the stream was reset
    sctx,         \* context passed to the sender: "live", "done"
    nopen,        \* NewStream calls made by the sender
    handlers,     \* protocol table of the serving host: protocol ID -> handler
    nsetup,       \* calls of SetupProtocols on the serving host
    cpend,        \* SendEcho: bytes s.Write has not handed to the stream yet
    shold,        \* handleEcho: bytes io.Copy has read and not written back yet
    cacc,         \* SendEcho: bytes io.ReadAll has collected
    \* history of the handler, for the properties
    slog,         \* error messages the handler has logged
    sreads,       \* lines the handler has read, in order
    swrites,      \* responses the handler has passed to its writer, in order
    swerr,        \* the handler's bufio.Writer has failed a Flush
    sexit,        \* why the handler returned: "none", "ok", "eof", "read error", "write error"
    \* several callers of SendPing against one server (SpecPings)
    kmsg,         \* caller -> message argument
    kstream,      \* caller -> ID of the stream NewStream gave it, 0 before
    knext,        \* streams opened on the connection so far
    kc2s,         \* stream ID -> bytes written by the caller, not yet read
    ks2c,         \* stream ID -> bytes written by the handler, not yet read
    kdata,        \* stream ID -> the line its handlePing goroutine has read
    kclpc,        \* caller -> "idle", "read", "done"
    ksvpc,        \* stream ID -> its handler: "none", "read", "write", "done"
    kret,         \* caller -> string returned
    kfail,        \* caller -> error returned: "none", "nil", or its text
    kcclosed,     \* stream ID -> closed by the caller
    ksclosed,     \* stream ID -> closed by the handler
    \* bootstrapPeers (SpecBoot)
    bpc,          \* "idle", "spawn" (in the range loop), "wait" (in wg.Wait()), "done"
    bpeers,       \* peers argument: one kind of address per entry
    bidx,         \* position of the range loop
    bwg,          \* counter of the sync.WaitGroup
    bgo,          \* per entry, its goroutine: "none", "run", "done"
    bout,         \* per entry, what connectToPeer returned: "none", "nil", "error"
    bres,         \* what bootstrapPeers returned: "none", "nil"
    cfg,          \* the Config runNode holds
    cfgpc,        \* runNode's position: "new", "loaded", "validated"
    cfgret        \* what Validate returned: "none", "nil", "error"

hostVars == <<conns, notifs, nEvents, disc>>
connVars == <<wpc, wres, wctx, notified, connected, inTest, inClose>>
connHist == <<evDuring, startConn, raced>>
countVars == <<now, cpc, cnode, cexp, cdeadline, ccancelled, tickAt, tickPending, cres, cerr>>
allVars  == <<apc, anodes, aidx, atimeout, adeadline, ares, afailed>>
countHist == <<creached, cstable, aobs, apolled>>
pollVars == <<countVars, allVars, countHist>>
loopVars == <<pnow, ppc, pkind, pdeadline, pcancelled, ptickAt, ptickPending,
              pinterval, pproto, pexp, pres, perr>>
queryVars == <<condVal, protos, qerr, dhtRec, dhtErr>>
loopHist == <<pevals, pticks, pfirst, ptrue, plast, perrSeen, plate>>
loopAll  == <<loopVars, queryVars, loopHist>>
tableVars == <<handlers, nsetup>>
echoVars == <<cpend, shold, cacc>>
handlerHist == <<slog, sreads, swrites, swerr, sexit>>
streamOne == <<sproto, smsg, c2s, s2c, cclosed, sclosed, clpc, svpc, cret, cfail,
               cwclosed, sreset, sctx, nopen, tableVars, echoVars, handlerHist>>
pingAll == <<kmsg, kstream, knext, kc2s, ks2c, kdata, kclpc, ksvpc, kret, kfail,
             kcclosed, ksclosed>>
bootAll == <<bpc, bpeers, bidx, bwg, bgo, bout, bres>>
cfgAll == <<cfg, cfgpc, cfgret>>
nodeAll == <<bootAll, cfgAll>>
streamAll == <<streamOne, pingAll, nodeAll>>
vars     == <<hostVars, connVars, connHist, pollVars, loopAll, streamAll>>

\* ------------------------------------------------------------ host queries
\* node.Network().Peers(): the peers with at least one open connection
Peers(h) == {p \in Hosts : conns[h][p] > 0}

isConnectedNever(node, peerID) == FALSE
isConnected(node, peerID) == peerID \in Peers(node)

NotifyAll(n, h, w) == [x \in DOMAIN n |-> n[x] \cup {w}]
Notify(n, h, w) == [n EXCEPT ![h] = @ \cup {w}]

StopNotifyLeak(n, h, w) == n
StopNotify(n, h, w) == [n EXCEPT ![h] = @ \ {w}]

\* ctx.Done() of the context built by context.WithTimeout is closed
CtxDone(w) == wctx[w] # "live"

\* ctx.Done() of the context of the running WaitForPeerCount is closed
CtxDoneC == ccancelled \/ now >= cdeadline

Running(w) == wpc[w] \notin {"idle", "done"}

\* The call is blocked in its select and no call-back is about to wake it.
Quiet(w) ==
    /\ wpc[w] = "select"
    /\ connected[w] = 0
    /\ inClose[w] = 0
    /\ inTest[w][node2] = 0

\* ------------------------------------------------------------------- Init
InitHost(links) ==
    /\ conns \in [Hosts -> [Hosts -> {0, 1}]]
    /\ \A h \in Hosts : \A p \in Hosts : conns[h][p] > 0 => <<h, p>> \in links
    /\ notifs = [h \in Hosts |-> {}]
    /\ nEvents = 0
    /\ disc = FALSE

InitConn ==
    /\ wpc = [w \in Waiters |-> "idle"]
    /\ wres = [w \in Waiters |-> "none"]
    /\ wctx = [w \in Waiters |-> "live"]
    /\ notified = [w \in Waiters |-> FALSE]
    /\ connected = [w \in Waiters |-> 0]
    /\ inTest = [w \in Waiters |-> [p \in Hosts |-> 0]]
    /\ inClose = [w \in Waiters |-> 0]
    /\ evDuring = [w \in Waiters |-> FALSE]
    /\ startConn = [w \in Waiters |-> {}]
    /\ raced = [w \in Waiters |-> FALSE]

InitPoll ==
    /\ now = 0
    /\ cpc = "idle"
    /\ cnode = "A"
    /\ cexp = 0
    /\ cdeadline = 0
    /\ ccancelled = FALSE
    /\ tickAt = 0
    /\ tickPending = FALSE
    /\ cres = "none"
    /\ cerr = 0
    /\ apc = "idle"
    /\ anodes = <<>>
    /\ aidx = 0
    /\ atimeout = 0
    /\ adeadline = 0
    /\ ares = "none"
    /\ afailed = "none"
    /\ creached = FALSE
    /\ cstable = -1
    /\ aobs = <<>>
    /\ apolled = <<>>

NoError == [msg |-> "nil"]
NoObservation == [err |-> FALSE]

InitLoop ==
    /\ pnow = 0
    /\ ppc = "idle"
    /\ pkind = "none"
    /\ pdeadline = 0
    /\ pcancelled = FALSE
    /\ ptickAt = 0
    /\ ptickPending = FALSE
    /\ pinterval = 0
    /\ pproto = "none"
    /\ pexp = <<>>
    /\ pres = "none"
    /\ perr = NoError
    /\ condVal = FALSE
    /\ protos = {}
    /\ qerr = FALSE
    /\ dhtRec = {}
    /\ dhtErr = FALSE
    /\ pevals = 0
    /\ pticks = 0
    /\ pfirst = FALSE
    /\ ptrue = FALSE
    /\ plast = NoObservation
    /\ perrSeen = FALSE
    /\ plate = FALSE

InitConfig ==
    /\ cfg = DefaultConfig
    /\ cfgpc = "new"
    /\ cfgret = "none"

InitBoot ==
    /\ bpc = "idle"
    /\ bpeers = <<>>
    /\ bidx = 0
    /\ bwg = 0
    /\ bgo = <<>>
    /\ bout = <<>>
    /\ bres = "none"
    /\ InitConfig

InitStream ==
    /\ sproto = "none"
    /\ smsg = <<>>
    /\ c2s = <<>>
    /\ s2c = <<>>
    /\ cclosed = FALSE
    /\ sclosed = FALSE
    /\ clpc = "idle"
    /\ svpc = "none"
    /\ cret = <<>>
    /\ cfail = "none"
    /\ cwclosed = FALSE
    /\ sreset = FALSE
    /\ sctx = "live"
    /\ nopen = 0
    /\ handlers = BuiltinHandlers
    /\ nsetup = 0
    /\ cpend = <<>>
    /\ shold = <<>>
    /\ cacc = <<>>
    /\ slog = {}
    /\ sreads = <<>>
    /\ swrites = <<>>
    /\ swerr = FALSE
    /\ sexit = "none"
    /\ kmsg = [c \in Clients |-> <<>>]
    /\ kstream = [c \in Clients |-> 0]
    /\ knext = 0
    /\ kc2s = [id \in StreamIDs |-> <<>>]
    /\ ks2c = [id \in StreamIDs |-> <<>>]
    /\ kdata = [id \in StreamIDs |-> <<>>]
    /\ kclpc = [c \in Clients |-> "idle"]
    /\ ksvpc = [id \in StreamIDs |-> "none"]
    /\ kret = [c \in Clients |-> <<>>]
    /\ kfail = [c \in Clients |-> "none"]
    /\ kcclosed = [id \in StreamIDs |-> FALSE]
    /\ ksclosed = [id \in StreamIDs |-> FALSE]
    /\ InitBoot

Init == InitHost(Links) /\ InitConn /\ InitPoll /\ InitLoop /\ InitStream

\* ------------------------------------------------------------ environment
\* The network opens a connection from h to p: h's swarm adds it to its table
\* and calls Connected on every registered notifiee.
Connect(h, p) ==
    /\ nEvents < MaxEvents
    /\ conns[h][p] < MaxConns
    /\ conns' = [conns EXCEPT ![h][p] = @ + 1]
    /\ nEvents' = nEvents + 1
    /\ inTest' = [w \in Waiters |->
                    IF w \in notifs[h] THEN [inTest[w] EXCEPT ![p] = @ + 1]
                                       ELSE inTest[w]]
    /\ evDuring' = [w \in Waiters |->
                      evDuring[w] \/ (h = node1 /\ p = node2 /\ Running(w) /\ ~CtxDone(w))]
    /\ creached' = (creached \/ (/\ cpc = "select" /\ ~CtxDoneC
                                  /\ h = cnode
                                  /\ Cardinality(Peers(h) \cup {p}) >= cexp))
    /\ raced' = [w \in Waiters |->
                   raced[w] \/ (h = node1 /\ p = node2 /\ Running(w) /\ CtxDone(w))]
    /\ UNCHANGED <<notifs, disc>>
    /\ UNCHANGED <<wpc, wres, wctx, notified, connected, inClose>>
    /\ UNCHANGED startConn
    /\ cstable' = IF cpc = "select" /\ h = cnode /\ conns[h][p] = 0 THEN -1 ELSE cstable
    /\ UNCHANGED <<countVars, allVars, aobs, apolled, loopAll, streamAll>>

\* A connection from h to p closes. connectionNotifiee.Disconnected is empty.
Disconnect(h, p) ==
    /\ nEvents < MaxEvents
    /\ conns[h][p] > 0
    /\ conns' = [conns EXCEPT ![h][p] = @ - 1]
    /\ nEvents' = nEvents + 1
    /\ disc' = TRUE
    /\ cstable' = IF cpc = "select" /\ h = cnode /\ conns[h][p] = 1 THEN -1 ELSE cstable
    /\ UNCHANGED notifs
    /\ UNCHANGED connVars
    /\ UNCHANGED connHist
    /\ UNCHANGED <<countVars, allVars, creached, aobs, apolled, loopAll, streamAll>>

\* The timer of context.WithTimeout fires.
DeadlineExceeded(w) ==
    /\ Running(w)
    /\ wctx[w] = "live"
    /\ wctx' = [wctx EXCEPT ![w] = "deadline"]
    /\ raced' = [raced EXCEPT ![w] = @ \/ ~Quiet(w)]
    /\ UNCHANGED hostVars
    /\ UNCHANGED <<wpc, wres, notified, connected, inTest, inClose>>
    /\ UNCHANGED <<evDuring, startConn>>
    /\ UNCHANGED <<pollVars, loopAll, streamAll>>

\* The caller's enclosing context is cancelled while the call runs.
Cancel(w) ==
    /\ Running(w)
    /\ wctx[w] = "live"
    /\ wctx' = [wctx EXCEPT ![w] = "cancelled"]
    /\ raced' = [raced EXCEPT ![w] = @ \/ ~Quiet(w)]
    /\ UNCHANGED hostVars
    /\ UNCHANGED <<wpc, wres, notified, connected, inTest, inClose>>
    /\ UNCHANGED <<evDuring, startConn>>
    /\ UNCHANGED <<pollVars, loopAll, streamAll>>

\* h's swarm starts (opening) or stops listening on an address and calls
\* Listen or ListenClose on every registered notifiee; both methods of
\* connectionNotifiee have an empty body.
ListenEvent(h, opening) ==
    /\ nEvents < MaxEvents
    /\ nEvents' = nEvents + 1
    /\ UNCHANGED <<conns, notifs, disc>>
    /\ UNCHANGED connVars
    /\ UNCHANGED connHist
    /\ UNCHANGED <<pollVars, loopAll, streamAll>>

\* ------------------------------------------- connectionNotifiee.Connected
\* The call-back without the comparison with n.targetPeer
ConnectedTestAny(w, p) ==
    /\ inTest[w][p] > 0
    /\ inTest' = [inTest EXCEPT ![w][p] = @ - 1]
    /\ inClose' = [inClose EXCEPT ![w] = IF ~notified[w] THEN @ + 1 ELSE @]
    /\ UNCHANGED hostVars
    /\ UNCHANGED <<wpc, wres, wctx, notified, connected>>
    /\ UNCHANGED connHist
    /\ UNCHANGED <<pollVars, loopAll, streamAll>>

\* The call-back evaluates  !n.notified && conn.RemotePeer() == n.targetPeer
ConnectedTest(w, p) ==
    /\ inTest[w][p] > 0
    /\ inTest' = [inTest EXCEPT ![w][p] = @ - 1]
    /\ inClose' = [inClose EXCEPT ![w] =
                     IF ~notified[w] /\ p = node2 THEN @ + 1 ELSE @]
    /\ UNCHANGED hostVars
    /\ UNCHANGED <<wpc, wres, wctx, notified, connected>>
    /\ UNCHANGED connHist
    /\ UNCHANGED <<pollVars, loopAll, streamAll>>

\* ... and then runs  n.notified = true; close(n.connected)
ConnectedClose(w) ==
    /\ inClose[w] > 0
    /\ inClose' = [inClose EXCEPT ![w] = @ - 1]
    /\ notified' = [notified EXCEPT ![w] = TRUE]
    /\ connected' = [connected EXCEPT ![w] = @ + 1]
    /\ UNCHANGED hostVars
    /\ UNCHANGED <<wpc, wres, wctx, inTest>>
    /\ UNCHANGED connHist
    /\ UNCHANGED <<pollVars, loopAll, streamAll>>

\* ------------------------------------------------------ WaitForConnection
\* ctx, cancel := context.WithTimeout(ctx, timeout)
WaitForConnection(w) ==
    /\ wpc[w] = "idle"
    /\ wpc' = [wpc EXCEPT ![w] = "check1"]
    /\ startConn' = [startConn EXCEPT ![w] =
                       {h \in {node1} : node2 \in Peers(node1)}
                         \cup {h \in {node2} : node1 \in Peers(node2)}]
    /\ UNCHANGED hostVars
    /\ UNCHANGED <<wres, wctx, notified, connected, inTest, inClose>>
    /\ UNCHANGED <<evDuring, raced>>
    /\ UNCHANGED <<pollVars, loopAll, streamAll>>

\* isConnected(node1, node2.ID()) && ...
CheckNode1(w) ==
    /\ wpc[w] = "check1"
    /\ wpc' = [wpc EXCEPT ![w] =
                 IF isConnected(node1, node2) THEN "check2" ELSE "notify"]
    /\ UNCHANGED hostVars
    /\ UNCHANGED <<wres, wctx, notified, connected, inTest, inClose>>
    /\ UNCHANGED connHist
    /\ UNCHANGED <<pollVars, loopAll, streamAll>>

\* ... && isConnected(node2, node1.ID())   { return nil }
CheckNode2(w) ==
    /\ wpc[w] = "check2"
    /\ IF isConnected(node2, node1)
         THEN /\ wpc' = [wpc EXCEPT ![w] = "done"]
              /\ wres' = [wres EXCEPT ![w] = "ok"]
         ELSE /\ wpc' = [wpc EXCEPT ![w] = "notify"]
              /\ UNCHANGED wres
    /\ UNCHANGED hostVars
    /\ UNCHANGED <<wctx, notified, connected, inTest, inClose>>
    /\ UNCHANGED connHist
    /\ UNCHANGED <<pollVars, loopAll, streamAll>>

\* node1.Network().Notify(notifiee1)
Register(w) ==
    /\ wpc[w] = "notify"
    /\ notifs' = Notify(notifs, node1, w)
    /\ wpc' = [wpc EXCEPT ![w] = "select"]
    /\ UNCHANGED <<conns, nEvents, disc>>
    /\ UNCHANGED <<wres, wctx, notified, connected, inTest, inClose>>
    /\ UNCHANGED connHist
    /\ UNCHANGED <<pollVars, loopAll, streamAll>>

\* select: case <-connected: return nil, and the deferred StopNotify
SelectConnected(w) ==
    /\ wpc[w] = "select"
    /\ connected[w] > 0
    /\ wpc' = [wpc EXCEPT ![w] = "done"]
    /\ wres' = [wres EXCEPT ![w] = "ok"]
    /\ notifs' = StopNotify(notifs, node1, w)
    /\ UNCHANGED <<conns, nEvents, disc>>
    /\ UNCHANGED <<wctx, notified, connected, inTest, inClose>>
    /\ UNCHANGED connHist
    /\ UNCHANGED <<pollVars, loopAll, streamAll>>

\* select: case <-ctx.Done(): return fmt.Errorf("timeout waiting for
\* connection"), and the deferred StopNotify
SelectDone(w) ==
    /\ wpc[w] = "select"
    /\ CtxDone(w)
    /\ wpc' = [wpc EXCEPT ![w] = "done"]
    /\ wres' = [wres EXCEPT ![w] = "timeout"]
    /\ notifs' = StopNotify(notifs, node1, w)
    /\ UNCHANGED <<conns, nEvents, disc>>
    /\ UNCHANGED <<wctx, notified, connected, inTest, inClose>>
    /\ UNCHANGED connHist
    /\ UNCHANGED <<pollVars, loopAll, streamAll>>

NextConn ==
    \/ \E w \in Waiters : WaitForConnection(w)
    \/ \E w \in Waiters : CheckNode1(w)
    \/ \E w \in Waiters : CheckNode2(w)
    \/ \E w \in Waiters : Register(w)
    \/ \E w \in Waiters : SelectConnected(w)
    \/ \E w \in Waiters : SelectDone(w)
    \/ \E w \in Waiters : \E p \in Hosts : ConnectedTest(w, p)
    \/ \E w \in Waiters : ConnectedClose(w)
    \/ \E w \in Waiters : DeadlineExceeded(w)
    \/ \E w \in Waiters : Cancel(w)
    \/ \E l \in Links : Connect(l[1], l[2])
    \/ \E l \in Links : Disconnect(l[1], l[2])

Spec == Init /\ [][NextConn]_vars

\* One WaitForConnection call on hosts that start without connections, with
\* every kind of event the network delivers to a notifiee.
NextEvents ==
    \/ WaitForConnection("w1")
    \/ CheckNode1("w1")
    \/ CheckNode2("w1")
    \/ Register("w1")
    \/ SelectConnected("w1")
    \/ SelectDone("w1")
    \/ \E p \in Hosts : ConnectedTest("w1", p)
    \/ ConnectedClose("w1")
    \/ DeadlineExceeded("w1")
    \/ Cancel("w1")
    \/ \E l \in Links : Connect(l[1], l[2])
    \/ \E l \in Links : Disconnect(l[1], l[2])
    \/ \E opening \in BOOLEAN : ListenEvent(node1, opening)

InitEvents == InitHost({}) /\ InitConn /\ InitPoll /\ InitLoop /\ InitStream

SpecEvents == InitEvents /\ [][NextEvents]_vars

\* ------------------------------------------------------------ the clock
\* Time passes while a polling wait runs (now is the time since it began);
\* the runtime delivers a tick to ticker.C when one is due (the channel
\* buffers one tick, further ticks are dropped).
AdvanceClock ==
    /\ now < MaxTime
    /\ cpc = "select" \/ apc = "loop"
    /\ now' = now + 1
    /\ IF cpc = "select" /\ now + 1 >= tickAt
         THEN /\ tickPending' = TRUE
              /\ tickAt' = tickAt + TickInterval
         ELSE UNCHANGED <<tickPending, tickAt>>
    /\ UNCHANGED <<cpc, cnode, cexp, cdeadline, ccancelled, cres, cerr>>
    /\ UNCHANGED <<allVars, countHist>>
    /\ UNCHANGED <<hostVars, connVars, connHist, loopAll, streamAll>>

\* The caller's enclosing context is cancelled while a polling wait runs.
CancelPoll ==
    /\ cpc = "select" \/ apc = "loop"
    /\ ~ccancelled
    /\ ccancelled' = TRUE
    /\ UNCHANGED <<now, cpc, cnode, cexp, cdeadline, tickAt, tickPending, cres, cerr>>
    /\ UNCHANGED <<allVars, countHist>>
    /\ UNCHANGED <<hostVars, connVars, connHist, loopAll, streamAll>>

\* ------------------------------------------------------- WaitForPeerCount
Min(a, b) == IF a <= b THEN a ELSE b

\* currentCount := len(node.Network().Peers()) of the timeout branch
TimeoutCountKnown(node) == Cardinality(Peers(node)) + 1
TimeoutCount(node) == Cardinality(Peers(node))

\* ctx, cancel := context.WithTimeout(ctx, timeout); ticker := time.NewTicker(100ms)
\* parent is the deadline of the enclosing context (MaxTime + MaxTimeout + 1: none)
EnterPeerCount(node, expectedCount, timeout, parent) ==
    /\ cpc' = "select"
    /\ cnode' = node
    /\ cexp' = expectedCount
    /\ cdeadline' = Min(parent, now + timeout)
    /\ tickAt' = now + TickInterval
    /\ tickPending' = FALSE
    /\ cres' = "none"
    /\ cerr' = 0
    /\ creached' = (Cardinality(Peers(node)) >= expectedCount
                      /\ ~ccancelled /\ now < Min(parent, now + timeout))
    /\ cstable' = Cardinality(Peers(node))
    /\ UNCHANGED <<now, ccancelled, aobs>>

NoDeadline == MaxTime + MaxTimeout + 1

WaitForPeerCount(node, expectedCount, timeout) ==
    /\ cpc = "idle"
    /\ apc = "idle"
    /\ EnterPeerCount(node, expectedCount, timeout, NoDeadline)
    /\ UNCHANGED <<allVars, apolled>>
    /\ UNCHANGED <<hostVars, connVars, connHist, loopAll, streamAll>>

\* select: case <-ctx.Done(): read the current count and return the error
PollTimeout ==
    /\ cpc = "select"
    /\ CtxDoneC
    /\ cpc' = "done"
    /\ cres' = "timeout"
    /\ cerr' = TimeoutCount(cnode)
    /\ tickPending' = FALSE
    /\ UNCHANGED <<now, cnode, cexp, cdeadline, ccancelled, tickAt>>
    /\ UNCHANGED <<allVars, countHist>>
    /\ UNCHANGED <<hostVars, connVars, connHist, loopAll, streamAll>>

\* select: case <-ticker.C: return nil if the node has enough peers
PollTick ==
    /\ cpc = "select"
    /\ tickPending
    /\ tickPending' = FALSE
    /\ IF Cardinality(Peers(cnode)) >= cexp
         THEN /\ cpc' = "done"
              /\ cres' = "ok"
              /\ aobs' = Append(aobs, Cardinality(Peers(cnode)))
         ELSE UNCHANGED <<cpc, cres, aobs>>
    /\ UNCHANGED <<now, cnode, cexp, cdeadline, ccancelled, tickAt, cerr>>
    /\ UNCHANGED <<allVars, creached, cstable, apolled>>
    /\ UNCHANGED <<hostVars, connVars, connHist, loopAll, streamAll>>

\* -------------------------------------------------- WaitForAllConnections
expectedConnectionsOff(nodes) == Len(nodes) - 2
expectedConnections(nodes) == Len(nodes) - 1

\* ctx, cancel := context.WithTimeout(ctx, timeout)
WaitForAllConnections(nodes, timeout) ==
    /\ cpc = "idle"
    /\ apc = "idle"
    /\ apc' = "loop"
    /\ anodes' = nodes
    /\ aidx' = 1
    /\ atimeout' = timeout
    /\ adeadline' = now + timeout
    /\ UNCHANGED <<ares, afailed>>
    /\ UNCHANGED <<countVars, countHist>>
    /\ UNCHANGED <<hostVars, connVars, connHist, loopAll, streamAll>>

\* for _, node := range nodes { err := WaitForPeerCount(ctx, node, expectedConnections, timeout) }
\* and, after the last node, return nil
AllNext ==
    /\ apc = "loop"
    /\ cpc = "idle"
    /\ IF aidx > Len(anodes)
         THEN /\ apc' = "done"
              /\ ares' = "ok"
              /\ UNCHANGED <<countVars, countHist>>
         ELSE /\ EnterPeerCount(anodes[aidx], expectedConnections(anodes), atimeout, adeadline)
              /\ apolled' = Append(apolled, anodes[aidx])
              /\ UNCHANGED <<apc, ares>>
    /\ UNCHANGED <<anodes, aidx, atimeout, adeadline, afailed>>
    /\ UNCHANGED <<hostVars, connVars, connHist, loopAll, streamAll>>

\* node.ID() of the error annotation: the node of the current iteration
failedNodeFirst(nodes, idx) == nodes[1]
failedNode(nodes, idx) == nodes[idx]

\* if err != nil { return fmt.Errorf("node %s failed ...: %w", node.ID(), err) }
\* (%w keeps the error of WaitForPeerCount, cres and cerr, inside the new one)
AllReturned ==
    /\ apc = "loop"
    /\ cpc = "done"
    /\ IF cres = "ok"
         THEN /\ aidx' = aidx + 1
              /\ cpc' = "idle"
              /\ UNCHANGED <<apc, ares, afailed>>
         ELSE /\ apc' = "done"
              /\ ares' = "fail"
              /\ afailed' = failedNode(anodes, aidx)
              /\ UNCHANGED <<aidx, cpc>>
    /\ UNCHANGED <<now, cnode, cexp, cdeadline, ccancelled, tickAt, tickPending, cres, cerr>>
    /\ UNCHANGED <<anodes, atimeout, adeadline>>
    /\ UNCHANGED countHist
    /\ UNCHANGED <<hostVars, connVars, connHist, loopAll, streamAll>>

InitCount == InitHost(AllLinks) /\ InitConn /\ InitPoll /\ InitLoop /\ InitStream
\* the query-polling waits and the streams do not look at connections
InitWait == InitHost({}) /\ InitConn /\ InitPoll /\ InitLoop /\ InitStream

NextCount ==
    \/ \E node \in CountNodes : \E n \in CountExpected : \E timeout \in 1 .. MaxTimeout :
          WaitForPeerCount(node, n, timeout)
    \/ PollTimeout
    \/ PollTick
    \/ \E nodes \in NodeLists : \E timeout \in 1 .. MaxTimeout :
          WaitForAllConnections(nodes, timeout)
    \/ AllNext
    \/ AllReturned
    \/ AdvanceClock
    \/ CancelPoll
    \/ \E l \in AllLinks : Connect(l[1], l[2])
    \/ \E l \in AllLinks : Disconnect(l[1], l[2])

SpecCount == InitCount /\ [][NextCount]_vars

\* ==================================================== query-polling waits
\* ctx.Done() of the context of the running query-polling wait is closed
CtxDoneLNever == FALSE
CtxDoneL == pcancelled \/ pnow >= pdeadline

\* Time passes while the wait runs; the runtime delivers a tick to ticker.C
\* when one is due (one tick is buffered, further ticks are dropped).
LoopClock ==
    /\ pnow < MaxTime
    /\ ppc = "select"
    /\ pnow' = pnow + 1
    /\ IF pnow + 1 >= ptickAt
         THEN /\ ptickPending' = TRUE
              /\ ptickAt' = ptickAt + pinterval
         ELSE UNCHANGED <<ptickPending, ptickAt>>
    /\ UNCHANGED <<ppc, pkind, pdeadline, pcancelled, pinterval, pproto, pexp, pres, perr>>
    /\ UNCHANGED <<queryVars, loopHist>>
    /\ UNCHANGED <<hostVars, connVars, connHist, pollVars, streamAll>>

\* The caller's enclosing context is cancelled while the wait runs.
CancelLoop ==
    /\ ppc = "select"
    /\ ~pcancelled
    /\ pcancelled' = TRUE
    /\ UNCHANGED <<pnow, ppc, pkind, pdeadline, ptickAt, ptickPending, pinterval,
                   pproto, pexp, pres, perr>>
    /\ UNCHANGED <<queryVars, loopHist>>
    /\ UNCHANGED <<hostVars, connVars, connHist, pollVars, streamAll>>

\* ---------------------------------------------------- what the waits query
\* The state the caller's predicate looks at changes.
SetCondition(b) ==
    /\ ppc = "select"
    /\ pkind = "cond"
    /\ b # condVal
    /\ condVal' = b
    /\ UNCHANGED <<protos, qerr, dhtRec, dhtErr>>
    /\ UNCHANGED <<loopVars, loopHist>>
    /\ UNCHANGED <<hostVars, connVars, connHist, pollVars, streamAll>>

\* Identify adds or drops protocols of the peer in the peerstore.
SetProtocols(ps) ==
    /\ ppc = "select"
    /\ pkind = "proto"
    /\ ps # protos
    /\ protos' = ps
    /\ UNCHANGED <<condVal, qerr, dhtRec, dhtErr>>
    /\ UNCHANGED <<loopVars, loopHist>>
    /\ UNCHANGED <<hostVars, connVars, connHist, pollVars, streamAll>>

\* The peerstore starts or stops failing its queries.
QueryFault ==
    /\ ppc = "select"
    /\ pkind = "proto"
    /\ qerr' = ~qerr
    /\ UNCHANGED <<condVal, protos, dhtRec, dhtErr>>
    /\ UNCHANGED <<loopVars, loopHist>>
    /\ UNCHANGED <<hostVars, connVars, connHist, pollVars, streamAll>>

\* A record for key reaches the DHT node.
PutValue(v) ==
    /\ ppc = "select"
    /\ pkind = "dht"
    /\ dhtRec # {v}
    /\ dhtRec' = {v}
    /\ UNCHANGED <<condVal, protos, qerr, dhtErr>>
    /\ UNCHANGED <<loopVars, loopHist>>
    /\ UNCHANGED <<hostVars, connVars, connHist, pollVars, streamAll>>

\* The DHT starts or stops failing its lookups.
LookupFault ==
    /\ ppc = "select"
    /\ pkind = "dht"
    /\ dhtErr' = ~dhtErr
    /\ UNCHANGED <<condVal, protos, qerr, dhtRec>>
    /\ UNCHANGED <<loopVars, loopHist>>
    /\ UNCHANGED <<hostVars, connVars, connHist, pollVars, streamAll>>

\* node.Peerstore().GetProtocols(peerID): (protocols, err)
GetProtocols ==
    IF qerr THEN [err |-> TRUE, protocols |-> {}]
            ELSE [err |-> FALSE, protocols |-> protos]

\* dhtNode.GetValue(ctx, key): (value, err); a missing record is an error.
\* The lookup is given the context of the wait: once that is done, it may
\* fail with the context's error or still answer.
GetValue ==
    LET miss == [err |-> TRUE, value |-> <<>>]
        answer == IF dhtErr \/ dhtRec = {}
                    THEN miss
                    ELSE [err |-> FALSE, value |-> CHOOSE v \in dhtRec : TRUE]
    IN  IF CtxDoneL THEN {answer, miss} ELSE {answer}

\* for _, proto := range protocols { if string(proto) == protocolID
ListedAny(protocols, protocolID) == protocols # {}
Listed(protocols, protocolID) == \E proto \in protocols : proto = protocolID

\* string(value) == string(expectedValue)
SameBytesLen(value, expectedValue) == Len(value) = Len(expectedValue)
SameBytes(value, expectedValue) ==
    /\ Len(value) = Len(expectedValue)
    /\ \A i \in 1 .. Len(value) : value[i] = expectedValue[i]

\* --------------------------------------------------------- the three loops
\* ctx, cancel := context.WithTimeout(ctx, timeout); time.NewTicker(interval)
EnterLoop(kind, timeout, interval) ==
    /\ ppc = "idle"
    /\ pkind' = kind
    /\ pdeadline' = pnow + timeout
    /\ pinterval' = interval
    /\ ptickAt' = pnow + interval
    /\ ptickPending' = FALSE
    /\ perr' = NoError
    /\ pticks' = 0
    /\ plate' = FALSE
    /\ perrSeen' = FALSE
    /\ UNCHANGED <<pnow, pcancelled>>
    /\ UNCHANGED <<protos, qerr, dhtRec, dhtErr>>
    /\ UNCHANGED <<hostVars, connVars, connHist, pollVars, streamAll>>

\* the ticker branch of a loop: the query saw obs, which satisfies the
\* condition or not
Evaluated(obs, satisfied) ==
    /\ ppc = "select"
    /\ ptickPending
    /\ ptickPending' = FALSE
    /\ plast' = obs
    /\ pevals' = pevals + 1
    /\ pticks' = pticks + 1
    /\ ptrue' = (ptrue \/ satisfied)
    /\ perrSeen' = (perrSeen \/ obs.err)
    /\ plate' = (plate \/ CtxDoneL)
    /\ IF satisfied
         THEN /\ ppc' = "done"
              /\ pres' = "ok"
         ELSE UNCHANGED <<ppc, pres>>
    /\ UNCHANGED <<pnow, pkind, pdeadline, pcancelled, ptickAt, pinterval, pproto, pexp, perr>>
    /\ UNCHANGED <<queryVars, pfirst>>
    /\ UNCHANGED <<hostVars, connVars, connHist, pollVars, streamAll>>

\* the ctx.Done() branch of a loop: return the error
TimedOut(err) ==
    /\ ppc = "select"
    /\ CtxDoneL
    /\ ppc' = "done"
    /\ pres' = "timeout"
    /\ perr' = err
    /\ ptickPending' = FALSE
    /\ UNCHANGED <<pnow, pkind, pdeadline, pcancelled, ptickAt, pinterval, pproto, pexp>>
    /\ UNCHANGED <<queryVars, loopHist>>
    /\ UNCHANGED <<hostVars, connVars, connHist, pollVars, streamAll>>

\* WaitWithCondition, up to the loop, without the check of lines 162-164
WaitWithConditionUnchecked(holds, timeout, interval) ==
    /\ EnterLoop("cond", timeout, interval)
    /\ condVal' = holds
    /\ pfirst' = holds
    /\ ppc' = "select"
    /\ pres' = "none"
    /\ UNCHANGED <<pevals, ptrue, plast>>
    /\ UNCHANGED <<pproto, pexp>>

\* WaitWithCondition, up to the loop: if condition() { return nil }
\* holds: what the predicate passed as condition returns at the call
WaitWithCondition(holds, timeout, interval) ==
    /\ EnterLoop("cond", timeout, interval)
    /\ condVal' = holds
    /\ pfirst' = holds
    /\ pevals' = 1
    /\ ptrue' = holds
    /\ plast' = [err |-> FALSE, val |-> holds]
    /\ IF holds
         THEN /\ ppc' = "done"
              /\ pres' = "ok"
         ELSE /\ ppc' = "select"
              /\ pres' = "none"
    /\ UNCHANGED <<pproto, pexp>>

\* case <-ticker.C: if condition() { return nil }
ConditionTick ==
    /\ pkind = "cond"
    /\ Evaluated([err |-> FALSE, val |-> condVal], condVal)

\* case <-ctx.Done(): return fmt.Errorf("timeout waiting for condition")
ConditionTimeout ==
    /\ pkind = "cond"
    /\ TimedOut([msg |-> "timeout waiting for condition"])

\* WaitForProtocolReady, up to the loop
WaitForProtocolReady(protocolID, timeout) ==
    /\ EnterLoop("proto", timeout, ProtocolInterval)
    /\ pproto' = protocolID
    /\ pfirst' = (~qerr /\ Listed(protos, protocolID))
    /\ ppc' = "select"
    /\ pres' = "none"
    /\ UNCHANGED <<pevals, ptrue, plast, pexp, condVal>>

\* case <-ticker.C: protocols, err := ...GetProtocols(peerID); if err == nil { ...
ProtocolTick ==
    /\ pkind = "proto"
    /\ Evaluated(GetProtocols, ~GetProtocols.err /\ Listed(GetProtocols.protocols, pproto))

\* case <-ctx.Done(): return fmt.Errorf("timeout waiting for protocol %s", protocolID)
ProtocolTimeout ==
    /\ pkind = "proto"
    /\ TimedOut([msg |-> "timeout waiting for protocol", protocol |-> pproto])

\* WaitForDHTValue, up to the loop
WaitForDHTValue(expectedValue, timeout) ==
    /\ EnterLoop("dht", timeout, DHTInterval)
    /\ pexp' = expectedValue
    /\ pfirst' = (~dhtErr /\ dhtRec = {expectedValue})
    /\ ppc' = "select"
    /\ pres' = "none"
    /\ UNCHANGED <<pevals, ptrue, plast, pproto, condVal>>

\* case <-ticker.C: value, err := dhtNode.GetValue(ctx, key);
\* if err == nil && string(value) == string(expectedValue) { return nil }
DHTTick ==
    /\ pkind = "dht"
    /\ \E got \in GetValue : Evaluated(got, ~got.err /\ SameBytes(got.value, pexp))

\* case <-ctx.Done(): return fmt.Errorf("timeout waiting for DHT value")
DHTTimeout ==
    /\ pkind = "dht"
    /\ TimedOut([msg |-> "timeout waiting for DHT value"])

NextWait ==
    \/ \E holds \in BOOLEAN : \E timeout \in 1 .. MaxTimeout :
          \E interval \in 1 .. MaxInterval : WaitWithCondition(holds, timeout, interval)
    \/ ConditionTick
    \/ ConditionTimeout
    \/ \E protocolID \in Protocols : \E timeout \in 1 .. MaxTimeout :
          WaitForProtocolReady(protocolID, timeout)
    \/ ProtocolTick
    \/ ProtocolTimeout
    \/ \E expectedValue \in Values : \E timeout \in 1 .. MaxTimeout :
          WaitForDHTValue(expectedValue, timeout)
    \/ DHTTick
    \/ DHTTimeout
    \/ LoopClock
    \/ CancelLoop
    \/ \E b \in BOOLEAN : SetCondition(b)
    \/ \E ps \in SUBSET Protocols : SetProtocols(ps)
    \/ QueryFault
    \/ \E v \in Values : PutValue(v)
    \/ LookupFault

SpecWait == InitWait /\ [][NextWait]_vars

\* The goroutine of the wait is scheduled, its select takes a ready branch,
\* and time passes.
FairWait ==
    /\ SpecWait
    /\ WF_vars(LoopClock)
    /\ WF_vars(ConditionTimeout)
    /\ WF_vars(ProtocolTimeout)
    /\ WF_vars(DHTTimeout)


\* ============================================== ping, chat and echo streams
\* p.host.SetStreamHandler(id, handler): the table maps id to handler, a
\* handler already registered under id is replaced.
SetStreamHandler(table, id, handler) ==
    [i \in DOMAIN table \cup {id} |-> IF i = id THEN handler ELSE table[i]]

\* SetupProtocols: the three registrations, in order
SetupProtocolsPingOnly(table) == SetStreamHandler(table, PingProtocol, "handlePing")
SetupProtocols(table) ==
    SetStreamHandler(
        SetStreamHandler(
            SetStreamHandler(table, PingProtocol, "handlePing"),
            ChatProtocol, "handleChat"),
        EchoProtocol, "handleEcho")

\* p.SetupProtocols() on the serving host; it may be called again at any time
Setup ==
    /\ nsetup < MaxSetups
    /\ nsetup' = nsetup + 1
    /\ handlers' = SetupProtocols(handlers)
    /\ UNCHANGED <<sproto, smsg, c2s, s2c, cclosed, sclosed, clpc, svpc, cret, cfail>>
    /\ UNCHANGED <<cwclosed, sreset, sctx, nopen, echoVars, handlerHist>>
    /\ UNCHANGED <<hostVars, connVars, connHist, pollVars, loopAll, pingAll, nodeAll>>

\* bufio.Reader.ReadString('\n') on the bytes buf: the bytes up to and
\* including the first delimiter; Rest is what stays unread.
HasLine(buf) == \E i \in 1 .. Len(buf) : buf[i] = NL
LineEnd(buf) ==
    CHOOSE i \in 1 .. Len(buf) : buf[i] = NL /\ \A j \in 1 .. i - 1 : buf[j] # NL
ReadStringAll(buf) == buf
ReadString(buf) == SubSeq(buf, 1, LineEnd(buf))
RestSkip(buf) == SubSeq(buf, LineEnd(buf) + 2, Len(buf))
Rest(buf) == SubSeq(buf, LineEnd(buf) + 1, Len(buf))

\* response[:len(response)-1]
TrimNone(response) == response
TrimLast(response) == SubSeq(response, 1, Len(response) - 1)

\* fmt.Sprintf("pong: %s", data)
PingResponse(data) == Pong \o data

\* fmt.Sprintf("[%s] Echo: %s", time.Now().Format("15:04:05"), message)
ChatResponsePlain(ts, message) == message
ChatResponse(ts, message) == <<91>> \o ts \o <<93, 32>> \o EchoTag \o message

\* []byte(data) and string(response): a copy, byte by byte
Bytes(data) == [i \in 1 .. Len(data) |-> data[i]]
String(bytes) == [i \in 1 .. Len(bytes) |-> bytes[i]]

\* io.ReadAll: what was read so far, then the new chunk
AccumulateLast(acc, chunk) == chunk
Accumulate(acc, chunk) == acc \o chunk

Min2(a, b) == IF a <= b THEN a ELSE b

\* bytes a writer can hand to a direction of the stream that holds buf
Space(buf) == Window - Len(buf)

\* The stream is open: it was created and one side at least has not closed.
StreamLive == sproto # "none" /\ ~(cclosed /\ sclosed)

\* The transport resets the stream (connection lost, peer reset): from now
\* on every read and write on it fails.
StreamReset ==
    /\ StreamLive
    /\ ~sreset
    /\ sreset' = TRUE
    /\ UNCHANGED <<sproto, smsg, c2s, s2c, cclosed, sclosed, clpc, svpc, cret, cfail>>
    /\ UNCHANGED <<cwclosed, sctx, nopen, tableVars, echoVars, handlerHist>>
    /\ UNCHANGED <<hostVars, connVars, connHist, pollVars, loopAll, pingAll, nodeAll>>

\* The context passed to the Send call is cancelled or its deadline passes
\* while the call is blocked on the stream.
SendCtxDone ==
    /\ clpc \in {"read", "write"}
    /\ sctx = "live"
    /\ sctx' = "done"
    /\ UNCHANGED <<sproto, smsg, c2s, s2c, cclosed, sclosed, clpc, svpc, cret, cfail>>
    /\ UNCHANGED <<cwclosed, sreset, nopen, tableVars, echoVars, handlerHist>>
    /\ UNCHANGED <<hostVars, connVars, connHist, pollVars, loopAll, pingAll, nodeAll>>

\* s, err := p.host.NewStream(ctx, peerID, protocol.ID(id)): one attempt.
\* opens: the peer was reached; the stream opens if the peer has a handler
\* for id, and the remote host then runs that handler.
\* if err != nil { return "", fmt.Errorf("failed to create stream: %w", err) }
NewStreamRetry(proto, opens) ==
    /\ nopen' = IF opens /\ ProtocolID[proto] \in DOMAIN handlers THEN nopen + 1 ELSE nopen + 2
    /\ IF opens /\ ProtocolID[proto] \in DOMAIN handlers
         THEN /\ sproto' = proto
              /\ svpc' = "read"
              /\ UNCHANGED <<cret, cfail>>
         ELSE /\ clpc' = "done"
              /\ cret' = <<>>
              /\ cfail' = "failed to create stream"
              /\ UNCHANGED <<sproto, svpc>>

NewStream(proto, opens) ==
    /\ nopen' = nopen + 1
    /\ IF opens /\ ProtocolID[proto] \in DOMAIN handlers
         THEN /\ sproto' = proto
              /\ svpc' = "read"
              /\ UNCHANGED <<cret, cfail>>
         ELSE /\ clpc' = "done"
              /\ cret' = <<>>
              /\ cfail' = "failed to create stream"
              /\ UNCHANGED <<sproto, svpc>>

\* NewStream, then writer.WriteString(message + "\n"); writer.Flush().
OpenAndSend(proto, message, opens) ==
    /\ smsg' = message
    /\ NewStream(proto, opens)
    /\ IF opens /\ ProtocolID[proto] \in DOMAIN handlers
         THEN /\ c2s' = message \o <<NL>>
              /\ clpc' = "read"
         ELSE UNCHANGED c2s
    /\ UNCHANGED <<s2c, cclosed, sclosed>>
    /\ UNCHANGED <<cwclosed, sreset, sctx, tableVars, echoVars, handlerHist>>
    /\ UNCHANGED <<hostVars, connVars, connHist, pollVars, loopAll, pingAll, nodeAll>>

\* response, err := reader.ReadString('\n'); return response[:len(response)-1], nil
\* and the deferred s.Close(). On a reset stream, or at end of stream without
\* a delimiter, ReadString returns an error.
ReadResponse(failure) ==
    /\ HasLine(s2c) \/ sclosed \/ sreset
    /\ IF HasLine(s2c) /\ ~sreset
         THEN /\ cret' = TrimLast(ReadString(s2c))
              /\ cfail' = "nil"
              /\ s2c' = Rest(s2c)
         ELSE /\ cret' = <<>>
              /\ cfail' = failure
              /\ UNCHANGED s2c
    /\ clpc' = "done"
    /\ cclosed' = TRUE
    /\ UNCHANGED <<sproto, smsg, c2s, sclosed, svpc>>
    /\ UNCHANGED <<cwclosed, sreset, sctx, nopen, tableVars, echoVars, handlerHist>>
    /\ UNCHANGED <<hostVars, connVars, connHist, pollVars, loopAll, pingAll, nodeAll>>

\* SendPing, up to the flush of the message
SendPing(message, opens) ==
    /\ clpc = "idle"
    /\ OpenAndSend("ping", message, opens)

\* SendPing, from the read of the pong to the return
SendPingReturn ==
    /\ sproto = "ping"
    /\ clpc = "read"
    /\ ReadResponse("failed to read pong")

\* SendChatMessage, up to the flush of the message
SendChatMessage(message, opens) ==
    /\ clpc = "idle"
    /\ OpenAndSend("chat", message, opens)

\* SendChatMessage, from the read of the response to the return
SendChatMessageReturn ==
    /\ sproto = "chat"
    /\ clpc = "read"
    /\ ReadResponse("failed to read response")

\* ReadString without a delimiter in buf: at the end of the stream it has
\* taken the bytes that were left and returns them with io.EOF; on a reset
\* stream it fails and nothing is taken
AtReadError(buf) == IF sreset THEN buf ELSE <<>>

\* A peer that is not this program opens a stream for ping or chat, writes
\* bytes, with or without a newline at their end, and closes the stream.
RawSend(proto, bytes) ==
    /\ clpc = "idle"
    /\ ProtocolID[proto] \in DOMAIN handlers
    /\ clpc' = "raw"
    /\ nopen' = nopen + 1
    /\ sproto' = proto
    /\ smsg' = bytes
    /\ c2s' = bytes
    /\ cclosed' = TRUE
    /\ svpc' = "read"
    /\ UNCHANGED <<s2c, sclosed, cret, cfail>>
    /\ UNCHANGED <<cwclosed, sreset, sctx, tableVars, echoVars, handlerHist>>
    /\ UNCHANGED <<hostVars, connVars, connHist, pollVars, loopAll, pingAll, nodeAll>>

\* the handler returns: the deferred s.Close()
HandlerReturnsOpen(exit) ==
    /\ svpc' = "done"
    /\ sexit' = exit
    /\ UNCHANGED sclosed

HandlerReturns(exit) ==
    /\ svpc' = "done"
    /\ sexit' = exit
    /\ sclosed' = TRUE

\* handlePing without the return after the answer
handlePingLoop ==
    /\ sproto = "ping"
    /\ svpc = "read"
    /\ HasLine(c2s) \/ cclosed \/ sreset
    /\ IF sreset \/ ~HasLine(c2s)
         THEN /\ slog' = slog \cup {"Failed to read ping data"}
              /\ HandlerReturns(IF sreset THEN "read error" ELSE "eof")
              /\ c2s' = AtReadError(c2s)
              /\ UNCHANGED <<s2c, sreads, swrites>>
         ELSE /\ sreads' = Append(sreads, ReadString(c2s))
              /\ c2s' = Rest(c2s)
              /\ swrites' = Append(swrites, PingResponse(ReadString(c2s)))
              /\ s2c' = s2c \o PingResponse(ReadString(c2s))
              /\ UNCHANGED <<svpc, sexit, sclosed, slog>>
    /\ UNCHANGED <<sproto, smsg, cclosed, clpc, cret, cfail>>
    /\ UNCHANGED <<cwclosed, sreset, sctx, nopen, tableVars, echoVars, swerr>>
    /\ UNCHANGED <<hostVars, connVars, connHist, pollVars, loopAll, pingAll, nodeAll>>

\* handlePing: read one line, answer it, return; defer s.Close().
\* A read error, end of stream included, is logged.
handlePing ==
    /\ sproto = "ping"
    /\ svpc = "read"
    /\ HasLine(c2s) \/ cclosed \/ sreset
    /\ IF sreset \/ ~HasLine(c2s)
         THEN /\ slog' = slog \cup {"Failed to read ping data"}
              /\ HandlerReturns(IF sreset THEN "read error" ELSE "eof")
              /\ c2s' = AtReadError(c2s)
              /\ UNCHANGED <<s2c, sreads, swrites>>
         ELSE /\ sreads' = Append(sreads, ReadString(c2s))
              /\ c2s' = Rest(c2s)
              /\ swrites' = Append(swrites, PingResponse(ReadString(c2s)))
              /\ s2c' = s2c \o PingResponse(ReadString(c2s))
              /\ HandlerReturns("ok")
              /\ UNCHANGED slog
    /\ UNCHANGED <<sproto, smsg, cclosed, clpc, cret, cfail>>
    /\ UNCHANGED <<cwclosed, sreset, sctx, nopen, tableVars, echoVars, swerr>>
    /\ UNCHANGED <<hostVars, connVars, connHist, pollVars, loopAll, pingAll, nodeAll>>

\* if err != io.EOF { logrus...Error("Failed to read chat message") }
LoggedAlways(err) == TRUE
Logged(err) == err # "eof"

\* handleChat, one turn of its loop: read a line and answer it, or leave the
\* loop at a read error (end of stream included) or a write error; defer
\* s.Close().  writer is a bufio.Writer: WriteString fails once an earlier
\* Flush has failed (the result of Flush itself is dropped).  Once the sender
\* has closed the stream, a flushed answer is lost, with or without an error.
handleChat ==
    /\ sproto = "chat"
    /\ svpc = "read"
    /\ HasLine(c2s) \/ cclosed \/ sreset
    /\ IF sreset \/ ~HasLine(c2s)
         THEN LET err == IF sreset THEN "read error" ELSE "eof"
              IN  /\ slog' = IF Logged(err)
                               THEN slog \cup {"Failed to read chat message"}
                               ELSE slog
                  /\ HandlerReturns(err)
                  /\ c2s' = AtReadError(c2s)
                  /\ UNCHANGED <<s2c, sreads, swrites, swerr>>
         ELSE /\ sreads' = Append(sreads, ReadString(c2s))
              /\ c2s' = Rest(c2s)
              /\ IF swerr
                   THEN /\ slog' = slog \cup {"Failed to write chat response"}
                        /\ HandlerReturns("write error")
                        /\ UNCHANGED <<s2c, swrites, swerr>>
                   ELSE \E ts \in Timestamps : \E flushed \in BOOLEAN :
                          /\ flushed \/ cclosed
                          /\ swrites' = Append(swrites, ChatResponse(ts, ReadString(c2s)))
                          /\ s2c' = IF cclosed THEN s2c
                                    ELSE s2c \o ChatResponse(ts, ReadString(c2s))
                          /\ swerr' = ~flushed
                          /\ UNCHANGED <<svpc, sexit, sclosed, slog>>
    /\ UNCHANGED <<sproto, smsg, cclosed, clpc, cret, cfail>>
    /\ UNCHANGED <<cwclosed, sreset, sctx, nopen, tableVars, echoVars>>
    /\ UNCHANGED <<hostVars, connVars, connHist, pollVars, loopAll, pingAll, nodeAll>>

\* ------------------------------------------------------------------- echo
\* SendEcho, up to the call of s.Write([]byte(data))
SendEcho(data, opens) ==
    /\ clpc = "idle"
    /\ smsg' = data
    /\ NewStream("echo", opens)
    /\ IF opens /\ ProtocolID["echo"] \in DOMAIN handlers
         THEN /\ cpend' = Bytes(data)
              /\ clpc' = "write"
         ELSE UNCHANGED cpend
    /\ UNCHANGED <<c2s, s2c, cclosed, sclosed, shold, cacc>>
    /\ UNCHANGED <<cwclosed, sreset, sctx, tableVars, handlerHist>>
    /\ UNCHANGED <<hostVars, connVars, connHist, pollVars, loopAll, pingAll, nodeAll>>

\* SendEcho in s.Write: the stream takes the bytes its window has room for;
\* when all are taken Write returns and s.CloseWrite() follows. On a reset
\* stream Write fails: return "", fmt.Errorf("failed to send data: %w", err).
SendEchoWrite ==
    /\ sproto = "echo"
    /\ clpc = "write"
    /\ cpend = <<>> \/ Space(c2s) > 0 \/ sreset
    /\ IF sreset
         THEN /\ clpc' = "done"
              /\ cret' = <<>>
              /\ cfail' = "failed to send data"
              /\ cclosed' = TRUE
              /\ UNCHANGED <<c2s, cpend, cwclosed>>
         ELSE IF cpend = <<>>
                THEN /\ cwclosed' = TRUE
                     /\ clpc' = "read"
                     /\ UNCHANGED <<c2s, cpend, cret, cfail, cclosed>>
                ELSE \E k \in 1 .. Min2(Len(cpend), Space(c2s)) :
                       /\ c2s' = c2s \o SubSeq(cpend, 1, k)
                       /\ cpend' = SubSeq(cpend, k + 1, Len(cpend))
                       /\ UNCHANGED <<clpc, cret, cfail, cclosed, cwclosed>>
    /\ UNCHANGED <<sproto, smsg, s2c, sclosed, svpc, shold, cacc>>
    /\ UNCHANGED <<sreset, sctx, nopen, tableVars, handlerHist>>
    /\ UNCHANGED <<hostVars, connVars, connHist, pollVars, loopAll, pingAll, nodeAll>>

\* SendEcho in io.ReadAll(s): take what has arrived; at end of stream
\* return string(response), nil; a reset stream gives
\* return "", fmt.Errorf("failed to read echo: %w", err); defer s.Close().
SendEchoRead ==
    /\ sproto = "echo"
    /\ clpc = "read"
    /\ s2c # <<>> \/ sclosed \/ sreset
    /\ IF sreset
         THEN /\ clpc' = "done"
              /\ cret' = <<>>
              /\ cfail' = "failed to read echo"
              /\ cclosed' = TRUE
              /\ UNCHANGED <<s2c, cacc>>
         ELSE IF s2c # <<>>
                THEN /\ cacc' = Accumulate(cacc, s2c)
                     /\ s2c' = <<>>
                     /\ UNCHANGED <<clpc, cret, cfail, cclosed>>
                ELSE /\ clpc' = "done"
                     /\ cret' = String(cacc)
                     /\ cfail' = "nil"
                     /\ cclosed' = TRUE
                     /\ UNCHANGED <<s2c, cacc>>
    /\ UNCHANGED <<sproto, smsg, c2s, sclosed, svpc, cpend, shold>>
    /\ UNCHANGED <<cwclosed, sreset, sctx, nopen, tableVars, handlerHist>>
    /\ UNCHANGED <<hostVars, connVars, connHist, pollVars, loopAll, pingAll, nodeAll>>

\* handleEcho in io.Copy(s, s), reading: take the bytes that have arrived;
\* end of stream ends the copy without error; a read error is logged; then
\* the deferred s.Close().
handleEchoRead ==
    /\ sproto = "echo"
    /\ svpc = "read"
    /\ c2s # <<>> \/ cwclosed \/ cclosed \/ sreset
    /\ IF sreset
         THEN /\ slog' = slog \cup {"Failed to echo data"}
              /\ HandlerReturns("read error")
              /\ UNCHANGED <<c2s, shold>>
         ELSE IF c2s # <<>>
                THEN /\ shold' = c2s
                     /\ c2s' = <<>>
                     /\ svpc' = "write"
                     /\ UNCHANGED <<sexit, sclosed, slog>>
                ELSE /\ HandlerReturns("ok")
                     /\ UNCHANGED <<c2s, shold, slog>>
    /\ UNCHANGED <<sproto, smsg, s2c, cclosed, clpc, cret, cfail, cpend, cacc>>
    /\ UNCHANGED <<cwclosed, sreset, sctx, nopen, tableVars, sreads, swrites, swerr>>
    /\ UNCHANGED <<hostVars, connVars, connHist, pollVars, loopAll, pingAll, nodeAll>>

\* handleEcho in io.Copy(s, s), writing back what it has read: the stream
\* takes the bytes its window has room for; a write error is logged and ends
\* the handler.
handleEchoWrite ==
    /\ sproto = "echo"
    /\ svpc = "write"
    /\ Space(s2c) > 0 \/ sreset
    /\ IF sreset
         THEN /\ slog' = slog \cup {"Failed to echo data"}
              /\ HandlerReturns("write error")
              /\ UNCHANGED <<s2c, shold>>
         ELSE \E k \in 1 .. Min2(Len(shold), Space(s2c)) :
                /\ s2c' = s2c \o SubSeq(shold, 1, k)
                /\ shold' = SubSeq(shold, k + 1, Len(shold))
                /\ svpc' = IF k = Len(shold) THEN "read" ELSE "write"
                /\ UNCHANGED <<sexit, sclosed, slog>>
    /\ UNCHANGED <<sproto, smsg, c2s, cclosed, clpc, cret, cfail, cpend, cacc>>
    /\ UNCHANGED <<cwclosed, sreset, sctx, nopen, tableVars, sreads, swrites, swerr>>
    /\ UNCHANGED <<hostVars, connVars, connHist, pollVars, loopAll, pingAll, nodeAll>>

NextProto ==
    \/ Setup
    \/ \E message \in Messages : \E opens \in BOOLEAN : SendPing(message, opens)
    \/ SendPingReturn
    \/ handlePing
    \/ \E message \in Messages : \E opens \in BOOLEAN : SendChatMessage(message, opens)
    \/ SendChatMessageReturn
    \/ handleChat
    \/ \E data \in Payloads : \E opens \in BOOLEAN : SendEcho(data, opens)
    \/ SendEchoWrite
    \/ SendEchoRead
    \/ handleEchoRead
    \/ handleEchoWrite
    \/ StreamReset
    \/ SendCtxDone

SpecProto == InitWait /\ [][NextProto]_vars

\* handlePing and handleChat against SendPing and against peers that write
\* any bytes
NextRaw ==
    \/ Setup
    \/ \E proto \in {"ping", "chat"} : \E bytes \in Messages : RawSend(proto, bytes)
    \/ \E message \in Messages : \E opens \in BOOLEAN : SendPing(message, opens)
    \/ SendPingReturn
    \/ handlePing
    \/ handleChat

SpecRaw == InitWait /\ [][NextRaw]_vars

\* Every goroutine is scheduled: a sender or a handler that can take a step
\* takes it. Resets, cancellations and registrations are under no obligation.
FairProto ==
    /\ SpecProto
    /\ WF_vars(SendPingReturn) /\ WF_vars(SendChatMessageReturn)
    /\ WF_vars(SendEchoWrite) /\ WF_vars(SendEchoRead)
    /\ WF_vars(handlePing) /\ WF_vars(handleChat)
    /\ WF_vars(handleEchoRead) /\ WF_vars(handleEchoWrite)

\* ====================================================== concurrent pings
\* NewStream on the connection to the server: a new stream, with the next
\* stream ID of the connection
NewStreamIDSame(n) == 1
NewStreamID(n) == n + 1

\* SendPing by caller c, up to the flush of the message.  The server accepts
\* the stream and starts handlePing on it in a goroutine of its own.
SendPingBy(c, message, opens) ==
    /\ kclpc[c] = "idle"
    /\ kmsg' = [kmsg EXCEPT ![c] = message]
    /\ IF opens
         THEN LET id == NewStreamID(knext)
              IN  /\ knext' = knext + 1
                  /\ kstream' = [kstream EXCEPT ![c] = id]
                  /\ kc2s' = [kc2s EXCEPT ![id] = message \o <<NL>>]
                  /\ ks2c' = [ks2c EXCEPT ![id] = <<>>]
                  /\ ksvpc' = [ksvpc EXCEPT ![id] = "read"]
                  /\ kclpc' = [kclpc EXCEPT ![c] = "read"]
                  /\ UNCHANGED <<kret, kfail>>
         ELSE /\ kclpc' = [kclpc EXCEPT ![c] = "done"]
              /\ kfail' = [kfail EXCEPT ![c] = "failed to create stream"]
              /\ UNCHANGED <<knext, kstream, kc2s, ks2c, ksvpc, kret>>
    /\ UNCHANGED <<kdata, kcclosed, ksclosed>>
    /\ UNCHANGED <<hostVars, connVars, connHist, pollVars, loopAll, streamOne, nodeAll>>

\* handlePing on stream id: data, err := reader.ReadString('\n')
handlePingRead(id) ==
    /\ ksvpc[id] = "read"
    /\ HasLine(kc2s[id]) \/ kcclosed[id]
    /\ IF HasLine(kc2s[id])
         THEN /\ kdata' = [kdata EXCEPT ![id] = ReadString(kc2s[id])]
              /\ kc2s' = [kc2s EXCEPT ![id] = Rest(kc2s[id])]
              /\ ksvpc' = [ksvpc EXCEPT ![id] = "write"]
              /\ UNCHANGED ksclosed
         ELSE /\ ksvpc' = [ksvpc EXCEPT ![id] = "done"]
              /\ ksclosed' = [ksclosed EXCEPT ![id] = TRUE]
              /\ UNCHANGED <<kdata, kc2s>>
    /\ UNCHANGED <<kmsg, kstream, knext, ks2c, kclpc, kret, kfail, kcclosed>>
    /\ UNCHANGED <<hostVars, connVars, connHist, pollVars, loopAll, streamOne, nodeAll>>

\* handlePing on stream id: writer.WriteString(response); writer.Flush();
\* return, with the deferred s.Close()
handlePingWrite(id) ==
    /\ ksvpc[id] = "write"
    /\ ks2c' = [ks2c EXCEPT ![id] = IF kcclosed[id] THEN @ ELSE @ \o PingResponse(kdata[id])]
    /\ ksvpc' = [ksvpc EXCEPT ![id] = "done"]
    /\ ksclosed' = [ksclosed EXCEPT ![id] = TRUE]
    /\ UNCHANGED <<kmsg, kstream, knext, kc2s, kdata, kclpc, kret, kfail, kcclosed>>
    /\ UNCHANGED <<hostVars, connVars, connHist, pollVars, loopAll, streamOne, nodeAll>>

\* SendPing by caller c, from the read of the pong to the return
SendPingReturnBy(c) ==
    /\ kclpc[c] = "read"
    /\ LET id == kstream[c]
       IN  /\ HasLine(ks2c[id]) \/ ksclosed[id]
           /\ IF HasLine(ks2c[id])
                THEN /\ kret' = [kret EXCEPT ![c] = TrimLast(ReadString(ks2c[id]))]
                     /\ kfail' = [kfail EXCEPT ![c] = "nil"]
                     /\ ks2c' = [ks2c EXCEPT ![id] = Rest(ks2c[id])]
                ELSE /\ kfail' = [kfail EXCEPT ![c] = "failed to read pong"]
                     /\ UNCHANGED <<kret, ks2c>>
           /\ kcclosed' = [kcclosed EXCEPT ![id] = TRUE]
    /\ kclpc' = [kclpc EXCEPT ![c] = "done"]
    /\ UNCHANGED <<kmsg, kstream, knext, kc2s, kdata, ksvpc, ksclosed>>
    /\ UNCHANGED <<hostVars, connVars, connHist, pollVars, loopAll, streamOne, nodeAll>>

NextPings ==
    \/ \E c \in Clients : \E message \in Messages : \E opens \in BOOLEAN :
          SendPingBy(c, message, opens)
    \/ \E id \in StreamIDs : handlePingRead(id)
    \/ \E id \in StreamIDs : handlePingWrite(id)
    \/ \E c \in Clients : SendPingReturnBy(c)

SpecPings == InitWait /\ [][NextPings]_vars

\* ========================================================= bootstrapPeers
\* wg.Wait() returns when the counter of the WaitGroup is n
WaitReturnsEarly(n) == TRUE
WaitReturns(n) == n = 0

\* bootstrapPeers: if len(peers) == 0 { return nil }, else enter the loop
bootstrapPeers(peers) ==
    /\ bpc = "idle"
    /\ bpeers' = peers
    /\ bgo' = [i \in 1 .. Len(peers) |-> "none"]
    /\ bout' = [i \in 1 .. Len(peers) |-> "none"]
    /\ IF Len(peers) = 0
         THEN /\ bpc' = "done"
              /\ bres' = "nil"
              /\ UNCHANGED bidx
         ELSE /\ bpc' = "spawn"
              /\ bidx' = 1
              /\ UNCHANGED bres
    /\ UNCHANGED bwg
    /\ UNCHANGED <<hostVars, connVars, connHist, pollVars, loopAll, streamOne, pingAll, cfgAll>>

\* for _, peerAddr := range peers { wg.Add(1); go func(addr string) {...}(peerAddr) }
\* and, after the last entry, wg.Wait()
SpawnAttempt ==
    /\ bpc = "spawn"
    /\ bwg' = bwg + 1
    /\ bgo' = [bgo EXCEPT ![bidx] = "run"]
    /\ bidx' = bidx + 1
    /\ bpc' = IF bidx = Len(bpeers) THEN "wait" ELSE "spawn"
    /\ UNCHANGED <<bpeers, bout, bres>>
    /\ UNCHANGED <<hostVars, connVars, connHist, pollVars, loopAll, streamOne, pingAll, cfgAll>>

\* connectToPeer on an address of kind kind: NewMultiaddr and
\* AddrInfoFromP2pAddr fail on what they cannot parse; h.Connect succeeds
\* (connects) or fails
connectToPeer(kind, connects) ==
    IF kind = "peer" /\ connects THEN "nil" ELSE "error"

\* the goroutine of entry i: connectToPeer, the log of its error, and the
\* deferred wg.Done()
Attempt(i) ==
    /\ i \in 1 .. Len(bgo)
    /\ bgo[i] = "run"
    /\ \E connects \in BOOLEAN :
          bout' = [bout EXCEPT ![i] = connectToPeer(bpeers[i], connects)]
    /\ bgo' = [bgo EXCEPT ![i] = "done"]
    /\ bwg' = bwg - 1
    /\ UNCHANGED <<bpc, bpeers, bidx, bres>>
    /\ UNCHANGED <<hostVars, connVars, connHist, pollVars, loopAll, streamOne, pingAll, cfgAll>>

\* wg.Wait() returns; return nil
BootstrapReturns ==
    /\ bpc = "wait"
    /\ WaitReturns(bwg)
    /\ bpc' = "done"
    /\ bres' = "nil"
    /\ UNCHANGED <<bpeers, bidx, bwg, bgo, bout>>
    /\ UNCHANGED <<hostVars, connVars, connHist, pollVars, loopAll, streamOne, pingAll, cfgAll>>

\* ------------------------------------------------------------ configuration
\* LoadConfig starts from DefaultConfig() and lets the file overwrite any
\* field; with no file it returns the defaults.
LoadConfig(c) ==
    /\ cfgpc = "new"
    /\ cfg' = c
    /\ cfgpc' = "loaded"
    /\ UNCHANGED cfgret
    /\ UNCHANGED <<hostVars, connVars, connHist, pollVars, loopAll, streamOne,
                   pingAll, bootAll>>

ValidateLoose(c) ==
    IF c.MaxConnections <= 0 THEN "error"
    ELSE IF c.LowWater <= 0 \/ c.HighWater <= 0 THEN "error"
    ELSE IF c.LowWater > c.HighWater THEN "error"
    ELSE IF c.ListenPort < 0 \/ c.ListenPort > 65535 THEN "error"
    ELSE IF c.LogLevel \notin ValidLogLevels THEN "error"
    ELSE "nil"

Validate(c) ==
    IF c.MaxConnections <= 0 THEN "error"
    ELSE IF c.LowWater <= 0 \/ c.HighWater <= 0 THEN "error"
    ELSE IF c.LowWater >= c.HighWater THEN "error"
    ELSE IF c.ListenPort < 0 \/ c.ListenPort > 65535 THEN "error"
    ELSE IF c.LogLevel \notin ValidLogLevels THEN "error"
    ELSE "nil"

\* runNode calls config.Validate(); the method only reads its receiver.
RunValidate ==
    /\ cfgpc = "loaded"
    /\ cfgret' = Validate(cfg)
    /\ cfgpc' = "validated"
    /\ UNCHANGED cfg
    /\ UNCHANGED <<hostVars, connVars, connHist, pollVars, loopAll, streamOne,
                   pingAll, bootAll>>

NextConfig ==
    \/ \E c \in Configs : LoadConfig(c)
    \/ RunValidate

SpecConfig == InitWait /\ [][NextConfig]_vars

NextBoot ==
    \/ \E peers \in PeerLists : bootstrapPeers(peers)
    \/ SpawnAttempt
    \/ \E i \in 1 .. MaxPeers : Attempt(i)
    \/ BootstrapReturns

SpecBoot == InitWait /\ [][NextBoot]_vars

\* ================================================================ claims
Both == {node1, node2}

\* C1 (stated as claimed; refuted): whenever a Connected event naming node2
\* fired on node1 after the call started and before its deadline, the call
\* returns nil and not the timeout error -- also when the event fell between
\* the isConnected check and Notify.  Calls whose deadline raced with their
\* own progress are left out, so that only a lost event can refute it.
C1_NoLostEvent ==
    \A w \in Waiters :
        (wpc[w] = "done" /\ evDuring[w] /\ ~raced[w]) => wres[w] = "ok"

C3_ClosedOnce ==
    \A w \in Waiters : connected[w] <= 1

\* C4 (stated as claimed; refuted): the call returns nil if a Connected event
\* naming node2 fired on node1 during the wait before the deadline, and the
\* timeout error if node2 was not connected at the start and no such event
\* fired before the deadline.  Calls whose deadline raced with their own
\* progress are left out.
C4_EventDecides ==
    \A w \in Waiters :
        (wpc[w] = "done" /\ wctx[w] # "cancelled" /\ ~raced[w]) =>
            /\ evDuring[w] => wres[w] = "ok"
            /\ (node1 \notin startConn[w] /\ ~evDuring[w]) => wres[w] = "timeout"

\* C5 (stated as claimed; refuted): when the call has returned nil and nothing
\* has disconnected, node2 is in node1's peer set and node1 is in node2's.
C5_BothSidesAtReturn ==
    \A w \in Waiters :
        (wpc[w] = "done" /\ wres[w] = "ok" /\ ~disc)
            => (node2 \in Peers(node1) /\ node1 \in Peers(node2))

\* C6: no subscription leaks: the notifiees registered on node1 are exactly
\* those of the calls blocked in the select, so a call that has returned (nil
\* at once, nil on an event, timeout, cancellation) has left the notifiee set
\* as it found it; no other host ever gets a notifiee.
C6_NoLeak ==
    \A h \in Hosts :
        notifs[h] = IF h = node1 THEN {w \in Waiters : wpc[w] = "select"} ELSE {}

C6_Witness ==
    \E w \in Waiters, v \in Waiters :
        /\ wpc[w] = "done" /\ wres[w] = "timeout" /\ wctx[w] = "cancelled"
        /\ wpc[v] = "done" /\ wres[v] = "ok" /\ connected[v] > 0

\* C7 (stated as claimed; refuted): when all the concurrent calls for the pair
\* were running with a live context as node2 connected, each of them returns
\* nil and no channel is closed twice.  Runs in which a deadline raced with
\* the progress of its call are left out.
C7_AllWaitersSucceed ==
    (\A w \in Waiters : wpc[w] = "done" /\ evDuring[w] /\ ~raced[w])
        => (\A w \in Waiters : wres[w] = "ok" /\ connected[w] <= 1)

\* C8 (stated as claimed; refuted): a WaitForPeerCount call that was not
\* cancelled returns nil if and only if the node's peer set had at least
\* expectedCount members at some instant of the wait before the deadline (in
\* particular when it already had them at the call).
C8_SuccessIffReached ==
    (apc = "idle" /\ cpc = "done" /\ ~ccancelled) => (cres = "ok" <=> creached)

\* C9 (stated as claimed; refuted): the count in the timeout error is below
\* expectedCount.
C9_CountBelowExpected ==
    (cpc = "done" /\ cres = "timeout") => cerr < cexp

\* C9 (amended): the count in the timeout error is the size of the node's peer
\* set read at the moment the wait takes the ctx.Done() branch (it may be
\* >= expectedCount), and it is k when the peer set stayed at k for the whole
\* wait.
C9_CountReadAtTimeout ==
    [][(cpc = "select" /\ cpc' = "done" /\ cres' = "timeout")
          => /\ cerr' = Cardinality(Peers(cnode))
             /\ cstable # -1 => cerr' = cstable]_vars

C9_Witness ==
    cpc = "done" /\ cres = "timeout" /\ cerr >= cexp /\ nEvents > 0

Mesh(nodes) ==
    \A i \in 1 .. Len(nodes) :
        /\ Cardinality(Peers(nodes[i])) >= Len(nodes) - 1
        /\ \A j \in 1 .. Len(nodes) : i # j => nodes[j] \in Peers(nodes[i])

C11_FirstFailureSurfaced ==
    (apc = "done" /\ ares = "fail") =>
        /\ aidx \in 1 .. Len(anodes)
        /\ afailed = anodes[aidx]
        /\ cres = "timeout" /\ cnode = afailed
        /\ apolled = SubSeq(anodes, 1, aidx)
        /\ Len(aobs) = aidx - 1
        /\ \A i \in 1 .. aidx - 1 : aobs[i] >= Len(anodes) - 1

C11_Witness ==
    /\ apc = "done" /\ ares = "fail" /\ ~ccancelled
    /\ aidx = 2 /\ Len(aobs) = 1 /\ afailed = anodes[2]

C13_CancelledDistinct ==
    (ppc = "done" /\ pcancelled /\ pnow < pdeadline /\ ~ptrue) => pres = "cancelled"

C15_NoPollAfterDeadline ==
    plate => pres # "ok"

\* C16: WaitForProtocolReady returns nil only from a poll whose query
\* succeeded and listed protocolID, and it does so at the first such poll; a
\* poll whose query failed leaves the wait running, which then ends only by
\* the timeout error, once the context is done.
C16_QueryErrorsTolerated ==
    (pkind = "proto") =>
        /\ (pres = "ok") => (~plast.err /\ pproto \in plast.protocols)
        /\ (pevals > 0 /\ ~plast.err /\ pproto \in plast.protocols) => (ppc = "done" /\ pres = "ok")
        /\ (pevals > 0 /\ plast.err /\ ppc = "done") => (pres = "timeout" /\ CtxDoneL)
        /\ (pres = "timeout") => CtxDoneL
        /\ (pres = "timeout" /\ ~pcancelled) => pnow >= pdeadline
        /\ (ppc = "done") <=> (pres \in {"ok", "timeout"})

C16_Witness ==
    /\ pkind = "proto" /\ ppc = "done" /\ pres = "ok"
    /\ perrSeen /\ ~plate /\ plast.protocols = Protocols

\* C17: WaitForDHTValue returns nil only from a lookup that returned no
\* error and exactly the bytes of expectedValue; a lookup that missed, failed
\* or returned other bytes leaves the wait running, which then ends only by
\* the timeout error, once the context is done.
C17_ExactValueOnly ==
    (pkind = "dht") =>
        /\ (pres = "ok") => (~plast.err /\ plast.value = pexp)
        /\ (pevals > 0 /\ ppc = "done" /\ (plast.err \/ plast.value # pexp)) =>
               (pres = "timeout" /\ CtxDoneL)
        /\ (pevals > 0 /\ ppc = "select") => (plast.err \/ plast.value # pexp)
        /\ (pres = "timeout") => CtxDoneL

C17_Witness ==
    /\ pkind = "dht" /\ ppc = "done" /\ pres = "ok" /\ ~plate
    /\ pexp = <<1>> /\ dhtRec = {<<1>>}

\* C18: the timeout error of a wait carries the last-known state of what it
\* waited on: the protocol list of the peer for WaitForProtocolReady, the
\* last looked-up value for WaitForDHTValue.
C18_TimeoutCarriesState ==
    (ppc = "done" /\ pres = "timeout" /\ pkind \in {"proto", "dht"}) =>
        \/ pkind = "proto" /\ "protocols" \in DOMAIN perr
        \/ pkind = "dht" /\ "value" \in DOMAIN perr

NoNewline(m) == \A i \in 1 .. Len(m) : m[i] # NL
Contains(str, sub) ==
    \E i \in 0 .. Len(str) - Len(sub) : SubSeq(str, i + 1, i + Len(sub)) = sub
FirstLine(m) == IF HasLine(m) THEN SubSeq(m, 1, LineEnd(m) - 1) ELSE m

C20_ChatContainsMessage ==
    (sproto = "chat" /\ clpc = "done" /\ ~sreset) =>
        (cfail = "nil" /\ Contains(cret, smsg) /\ Contains(cret, EchoTag))

\* C20, amended: SendChatMessage returns "[HH:MM:SS] Echo: " followed by
\* the message up to its first newline; it contains "Echo: ", and it
\* contains the message when the message has no newline (on a stream the
\* transport has not reset).
C20_ChatEchoesFirstLine ==
    (sproto = "chat" /\ clpc = "done" /\ ~sreset) =>
        /\ cfail = "nil"
        /\ \E ts \in Timestamps :
              cret = <<91>> \o ts \o <<93, 32>> \o EchoTag \o FirstLine(smsg)
        /\ Contains(cret, EchoTag)
        /\ NoNewline(smsg) => Contains(cret, smsg)

C20_Witness ==
    sproto = "chat" /\ clpc = "done" /\ smsg = <<97, 98>> /\ Contains(cret, smsg)

\* C21: a SendEcho of any byte sequence (empty, with newlines, with bytes
\* that are no text, of any length tried) that has opened its stream to
\* handleEcho and returns on a stream the transport has not reset returns,
\* with a nil error, exactly the bytes it was given: same length, same
\* bytes, same order.  Whether it returns is the subject of C34.
C21_EchoReturnsData ==
    (sproto = "echo" /\ clpc = "done" /\ ~sreset) =>
        /\ cfail = "nil"
        /\ Len(cret) = Len(smsg)
        /\ \A i \in 1 .. Len(smsg) : cret[i] = smsg[i]

C21_Witness ==
    /\ sproto = "echo" /\ clpc = "done" /\ cfail = "nil"
    /\ smsg = <<NL, 255, NL>> /\ cret = smsg /\ sexit = "ok"

\* C22: every stream is released on every exit path.  A Send call that
\* opened a stream and has returned, with a result or with any error, has
\* closed it; a handler that has returned has closed it; and a handler whose
\* stream was reset, or closed or half-closed by the sender, or that serves
\* a ping, eventually returns and closes it.
C22_ClientReleased == (sproto # "none" /\ clpc = "done") => cclosed
C22_HandlerReleased == svpc = "done" => sclosed
C22_HandlerDue ==
    /\ svpc \in {"read", "write"}
    /\ cclosed \/ cwclosed \/ sreset \/ sproto = "ping"
C22_StreamsReleased ==
    /\ [](C22_ClientReleased /\ C22_HandlerReleased)
    /\ C22_HandlerDue ~> (svpc = "done" /\ sclosed)

C22_Witness ==
    /\ sproto = "chat" /\ sexit = "read error" /\ sclosed
    /\ clpc = "done" /\ cfail = "failed to read response" /\ cclosed

\* C23: a Send call honours its context for its whole duration: once the
\* context is done while the call is blocked in a read or a write on the
\* open stream, the call can return (with an error) whether or not the peer
\* answers.
C23_ClientCanStep ==
    \/ ENABLED SendPingReturn
    \/ ENABLED SendChatMessageReturn
    \/ ENABLED SendEchoWrite
    \/ ENABLED SendEchoRead
C23_DeadlineHonoured ==
    (clpc \in {"read", "write"} /\ sctx = "done") => C23_ClientCanStep

\* C24: a Send call makes exactly one stream-open attempt, never a second
\* one; when the attempt fails (peer unreachable or protocol not
\* registered) the call has returned with the error "failed to create
\* stream" and an empty response, no byte was written or read, no stream
\* exists and no handler was started.
C24_OneOpenAttempt ==
    /\ nopen = IF clpc = "idle" THEN 0 ELSE 1
    /\ (clpc # "idle" /\ sproto = "none") =>
          /\ clpc = "done"
          /\ cfail = "failed to create stream"
    /\ cfail = "failed to create stream" =>
          /\ clpc = "done" /\ sproto = "none" /\ svpc = "none"
          /\ cret = <<>>
          /\ c2s = <<>> /\ s2c = <<>> /\ cpend = <<>> /\ cacc = <<>>
          /\ sreads = <<>> /\ swrites = <<>>
          /\ ~cclosed /\ ~cwclosed

C24_Witness ==
    /\ clpc = "done" /\ cfail = "failed to create stream" /\ nopen = 1
    /\ EchoProtocol \notin DOMAIN handlers /\ smsg = <<255>>

\* C25: the protocol table only grows.  No step removes an entry; a call of
\* SetupProtocols leaves the table with exactly the ping, chat and echo
\* identifiers added to what was registered before; a further call leaves
\* the set of registered identifiers unchanged; handling a stream and the
\* Send calls leave the table alone.
C25_OwnProtocols == {PingProtocol, ChatProtocol, EchoProtocol}
C25_TableOnlyGrows ==
    [][/\ DOMAIN handlers \subseteq DOMAIN handlers'
       /\ \A id \in DOMAIN handlers \ C25_OwnProtocols : handlers'[id] = handlers[id]
       /\ nsetup' # nsetup =>
             /\ DOMAIN handlers' = DOMAIN handlers \cup C25_OwnProtocols
             /\ handlers'[PingProtocol] = "handlePing"
             /\ handlers'[ChatProtocol] = "handleChat"
             /\ handlers'[EchoProtocol] = "handleEcho"
       /\ (nsetup' # nsetup /\ nsetup > 0) => DOMAIN handlers' = DOMAIN handlers
       /\ nsetup' = nsetup => handlers' = handlers]_vars

C25_Witness ==
    /\ nsetup = 2
    /\ DOMAIN handlers = DOMAIN BuiltinHandlers \cup C25_OwnProtocols
    /\ sproto = "echo" /\ svpc = "done" /\ clpc = "done"

\* the newline-terminated lines of the bytes buf, in order
RECURSIVE LinesFrom(_, _)
LinesFrom(buf, i) ==
    IF \E j \in i .. Len(buf) : buf[j] = NL
      THEN LET e == CHOOSE j \in i .. Len(buf) :
                        buf[j] = NL /\ \A k \in i .. j - 1 : buf[k] # NL
           IN  <<SubSeq(buf, i, e)>> \o LinesFrom(buf, e + 1)
      ELSE <<>>
Lines(buf) == LinesFrom(buf, 1)

\* "[HH:MM:SS] Echo: " followed by line
IsChatAnswer(response, line) ==
    \E ts \in Timestamps : response = <<91>> \o ts \o <<93, 32>> \o EchoTag \o line

\* C26 as stated: on a chat stream that carried the lines l1..lk and that
\* the transport has not reset, handleChat, once it has returned, has
\* written exactly k responses, the i-th being the answer to li.
C26_AnswersEveryLine ==
    (sproto = "chat" /\ svpc = "done" /\ ~sreset) =>
        /\ Len(swrites) = Len(Lines(smsg \o <<NL>>))
        /\ \A i \in 1 .. Len(swrites) : IsChatAnswer(swrites[i], Lines(smsg \o <<NL>>)[i])

\* C26, amended: handleChat reads the lines in the order sent and answers
\* them in that order, the i-th response being "[HH:MM:SS] Echo: " and the
\* i-th line with its newline, written before line i+1 is read; it has
\* written all k responses when it returns at the end of the stream, and
\* one less than it has read when it returns at a failed write, which
\* happens only after the sender has closed the stream.
C26_AnswersInOrder ==
    sproto = "chat" =>
        /\ Len(sreads) <= Len(Lines(smsg \o <<NL>>))
        /\ \A i \in 1 .. Len(sreads) : sreads[i] = Lines(smsg \o <<NL>>)[i]
        /\ Len(swrites) <= Len(sreads) /\ Len(sreads) <= Len(swrites) + 1
        /\ \A i \in 1 .. Len(swrites) : IsChatAnswer(swrites[i], sreads[i])
        /\ sexit = "eof" => Len(swrites) = Len(Lines(smsg \o <<NL>>))
        /\ Len(sreads) = Len(swrites) + 1 <=> sexit = "write error"
        /\ sexit = "write error" => cclosed

C26_Witness ==
    /\ sproto = "chat" /\ smsg = <<NL, 97>> /\ sexit = "eof"
    /\ Len(swrites) = 2 /\ IsChatAnswer(swrites[2], <<97, NL>>)

\* C27: handleChat tells the clean end of the stream from a read error.  At
\* the end of the stream it leaves its loop and closes the stream without
\* logging a failure; at any other read error it logs "Failed to read chat
\* message", leaves the loop and closes the stream; in both cases the step
\* that ends the loop writes no response and none is written afterwards.
C27_ReadExit == sexit \in {"eof", "read error"}
C27_EofIsNotAnError ==
    /\ [](sproto = "chat" =>
            /\ C27_ReadExit => (svpc = "done" /\ sclosed)
            /\ sexit = "eof" => slog = {}
            /\ sexit = "read error" => slog = {"Failed to read chat message"})
    /\ [][(sproto = "chat" /\ (svpc = "done" \/ C27_ReadExit')) =>
             (swrites' = swrites /\ Len(s2c') <= Len(s2c))]_vars

C27_Witness ==
    /\ sproto = "chat" /\ sexit = "eof" /\ slog = {} /\ sclosed
    /\ Len(sreads) = 1 /\ Len(swrites) = 1 /\ cfail = "nil"

\* C28: one ping stream carries one exchange.  handlePing reads at most one
\* line and writes at most one response, the pong of the first line, and
\* has then returned and closed the stream; the lines a sender put on the
\* stream after the first stay unread and no response to them ever reaches
\* the stream.
C28_OneExchange ==
    sproto = "ping" =>
        /\ Len(sreads) <= 1 /\ Len(swrites) <= 1
        /\ Len(Lines(s2c)) <= 1
        /\ Len(sreads) = 1 =>
              /\ svpc = "done" /\ sclosed /\ sexit = "ok"
              /\ sreads[1] = Lines(smsg \o <<NL>>)[1]
              /\ swrites = <<Pong \o sreads[1]>>
              /\ Len(Lines(c2s)) = Len(Lines(smsg \o <<NL>>)) - 1

C28_Witness ==
    /\ sproto = "ping" /\ smsg = <<97, NL>> /\ svpc = "done" /\ c2s = <<NL>>
    /\ clpc = "done" /\ cret = Pong \o <<97>> /\ s2c = <<>>

\* C29: when several callers run SendPing at once against one server, each
\* exchange has a stream of its own, and each caller that gets a response
\* gets the pong of its own message: "pong: " and the first line of the
\* message it sent (the whole message when it has no newline), whatever the
\* other callers sent.
C29_OwnPong ==
    /\ \A c, d \in Clients :
          (c # d /\ kstream[c] # 0 /\ kstream[d] # 0) => kstream[c] # kstream[d]
    /\ \A c \in Clients :
          kfail[c] = "nil" =>
              /\ kret[c] = Pong \o FirstLine(kmsg[c])
              /\ Contains(kret[c], Pong)
              /\ NoNewline(kmsg[c]) => Contains(kret[c], kmsg[c])

C29_Witness ==
    /\ kmsg["c1"] = <<97>> /\ kmsg["c2"] = <<98>>
    /\ kstream["c2"] = 1 /\ kstream["c1"] = 2
    /\ kclpc["c1"] = "done" /\ kret["c1"] = Pong \o <<97>>
    /\ ksvpc[1] = "write" /\ kdata[1] = <<98, NL>> /\ kclpc["c2"] = "read"

C31_FromTag == <<32, 40, 102, 114, 111, 109, 32>>
C31_PongNamesResponder ==
    (sproto = "ping" /\ clpc = "done" /\ cfail = "nil" /\ NoNewline(smsg)) =>
        /\ Len(cret) > Len(Pong \o smsg \o C31_FromTag)
        /\ SubSeq(cret, 1, Len(Pong \o smsg \o C31_FromTag)) = Pong \o smsg \o C31_FromTag
        /\ cret[Len(cret)] = 41

\* What WaitWithCondition returns when its predicate is first at the call
\* and its loop, the same select over ctx.Done() and ticker.C, ends with
\* loop: nil at once when the predicate holds at the call.
C32_ConditionOutcome(first, loop) == IF first THEN "ok" ELSE loop

\* C32: WaitForPeerCount(host, n, T) returns what WaitWithCondition returns
\* for the predicate "peer-set size >= n" on the same schedule; stated for
\* the schedules on which the peer set does not change during the wait.
C32_SameOutcome ==
    (apc = "idle" /\ cpc = "done" /\ cstable # -1) =>
        cres = C32_ConditionOutcome(cstable >= cexp, cres)

\* C33: only a Connected event naming the target peer unblocks a connection
\* waiter.  The completion channel is closed and the notified flag set only
\* by the call-back of a Connected event that named node2; the call-back of
\* a Connected event for another peer ends without either; a Disconnected,
\* Listen or ListenClose event changes nothing of the waiter.
C33_OnlyTargetUnblocks ==
    [][\A w \in Waiters :
          /\ (notified'[w] # notified[w] \/ connected'[w] # connected[w]) =>
                (inClose[w] > 0 /\ inClose'[w] = inClose[w] - 1 /\ inTest'[w] = inTest[w])
          /\ inClose'[w] > inClose[w] =>
                /\ ~notified[w]
                /\ inTest'[w][node2] = inTest[w][node2] - 1
                /\ \A p \in Hosts \ {node2} : inTest'[w][p] = inTest[w][p]
          /\ \A p \in Hosts \ {node2} :
                inTest'[w][p] < inTest[w][p] => UNCHANGED <<notified, connected, inClose>>
          /\ (nEvents' # nEvents /\ \A h, p \in Hosts : conns'[h][p] <= conns[h][p]) =>
                UNCHANGED <<notified, connected, inTest, inClose>>]_vars

C33_Witness ==
    /\ wpc["w1"] = "select" /\ ~notified["w1"] /\ connected["w1"] = 0
    /\ inClose["w1"] = 0 /\ \A p \in Hosts : inTest["w1"][p] = 0
    /\ conns[node1]["C"] = 2 /\ conns[node1][node2] = 0 /\ nEvents = 2

\* C34: SendEcho terminates for every payload size: while the call runs on a
\* stream that was not reset, the sender or the handler can always take a
\* step, so the two never wait on each other.
C34_EchoCanStep ==
    \/ ENABLED SendEchoWrite
    \/ ENABLED SendEchoRead
    \/ ENABLED handleEchoRead
    \/ ENABLED handleEchoWrite
C34_EchoNeverStuck ==
    (sproto = "echo" /\ clpc \in {"write", "read"} /\ ~sreset) => C34_EchoCanStep

\* C35: the timeout of WaitForAllConnections bounds the whole batch.  Every
\* per-host WaitForPeerCount runs under the deadline made at the start of
\* the call, and once that deadline has passed a per-host wait that ends,
\* ends with the timeout error, so that the call returns an error.
C35_BatchDeadline ==
    /\ []((apc = "loop" /\ cpc = "select") => cdeadline = adeadline)
    /\ [][(apc = "loop" /\ cpc = "select" /\ ~ccancelled /\ now >= adeadline /\ cpc' = "done")
             => cres' = "timeout"]_vars

\* the bytes the sender has put on the stream
C36_Sent == IF clpc = "raw" THEN smsg ELSE smsg \o <<NL>>

\* C36: the ping and chat servers answer only complete lines.  Every line
\* read and answered is one of the newline-terminated lines that were sent,
\* in order; bytes without a newline before the end of the stream get no
\* response: handlePing closes without writing and handleChat ends its loop;
\* and the result of a SendPing whose message holds a newline is the pong of
\* the part before the first newline, with no text from after it.
C36_OnlyCompleteLines ==
    /\ sproto \in {"ping", "chat"} =>
          /\ Len(sreads) <= Len(Lines(C36_Sent))
          /\ \A i \in 1 .. Len(sreads) : sreads[i] = Lines(C36_Sent)[i]
          /\ Len(swrites) <= Len(sreads)
          /\ \A i \in 1 .. Len(swrites) :
                \/ swrites[i] = Pong \o sreads[i]
                \/ IsChatAnswer(swrites[i], sreads[i])
          /\ (svpc = "done" /\ Lines(C36_Sent) = <<>>) =>
                (swrites = <<>> /\ s2c = <<>> /\ sclosed /\ sexit # "ok")
          /\ (svpc = "done" /\ sproto = "chat" /\ ~sreset) => sexit \in {"eof", "write error"}
    /\ (sproto = "ping" /\ clpc = "done" /\ cfail = "nil") =>
          /\ cret = Pong \o FirstLine(smsg)
          /\ NoNewline(cret)

C36_Witness ==
    /\ sproto = "chat" /\ clpc = "raw" /\ smsg = <<NL, 98>>
    /\ svpc = "done" /\ sexit = "eof" /\ Len(swrites) = 1 /\ c2s = <<>>

\* C37: bootstrapPeers starts one connection attempt per address, the
\* attempts run side by side, and it returns only after every attempt has
\* finished, failed or not; what it returns is nil in all cases, also when
\* every attempt failed; with an empty list it returns nil without starting
\* an attempt.
C37_Started == {i \in 1 .. Len(bgo) : bgo[i] # "none"}
C37_BootstrapWaitsForAll ==
    /\ bwg = Cardinality({i \in 1 .. Len(bgo) : bgo[i] = "run"})
    /\ bpc \in {"wait", "done"} => C37_Started = 1 .. Len(bpeers)
    /\ bpc = "spawn" => C37_Started = 1 .. bidx - 1
    /\ \A i \in 1 .. Len(bgo) : bgo[i] = "done" <=> bout[i] # "none"
    /\ bpc = "done" =>
          /\ bres = "nil"
          /\ \A i \in 1 .. Len(bpeers) : bgo[i] = "done"
          /\ bpeers = <<>> => (bwg = 0 /\ bgo = <<>> /\ bidx = 0)
    /\ bpc # "done" => bres = "none"

C37_Witness ==
    /\ bpc = "wait" /\ bwg = 1 /\ bpeers = <<"peer", "peer">>
    /\ bgo = <<"run", "done">> /\ bout = <<"none", "error">>

\* C38: Validate returns nil exactly when MaxConnections > 0, LowWater > 0,
\* HighWater > 0, LowWater < HighWater, 0 <= ListenPort <= 65535 and LogLevel
\* is one of trace, debug, info, warn, error, fatal, panic, and an error
\* otherwise; the call leaves the Config as it was; the defaults pass.
C38_Valid(c) ==
    /\ c.MaxConnections > 0
    /\ c.LowWater > 0
    /\ c.HighWater > 0
    /\ c.LowWater < c.HighWater
    /\ 0 <= c.ListenPort /\ c.ListenPort <= 65535
    /\ c.LogLevel \in {"trace", "debug", "info", "warn", "error", "fatal", "panic"}

C38_ValidateExact ==
    [][(cfgpc = "loaded" /\ cfgpc' = "validated") =>
          /\ cfg' = cfg
          /\ cfgret' = (IF C38_Valid(cfg) THEN "nil" ELSE "error")
          /\ (cfg = DefaultConfig => cfgret' = "nil")]_vars

C38_Witness ==
    /\ cfgpc = "validated" /\ cfgret = "nil"
    /\ cfg.LowWater = 1 /\ cfg.HighWater = 2 /\ cfg.ListenPort = 65535
    /\ cfg.LogLevel = "panic"

====
